---- MODULE Spec2Model ----
(***************************************************************************)
(* Job lifecycle of the Sabanas server: the HTTP front door                *)
(* (routes.py), accept_job_sabana / process_job_sabana / run_etl           *)
(* (jobs_service.py) and the repository (domain/repository.py), run by     *)
(* several request/worker processes against one shared database.           *)
(***************************************************************************)
EXTENDS Integers, Sequences, FiniteSets, TLC

\* ---------------------------------------------------------------- bounds
NumProcs == 2          \* concurrent requests / workers

\* the year of datetime.utcnow() at the time of the run
CurrentYear == 2026

\* the rows of sabanas.archivos at the start, by id_sabanas
Nuevos  == {1}                     \* uploaded, in state subido
Antiguo == 2                       \* processed by an earlier job
Files   == Nuevos \cup {Antiguo}
Ids     == Files \cup {3}          \* id_archivo of a request; 3 has no row
Procs == 1 .. NumProcs

\* an optional value (a nullable column, a missing row): <<>> or <<v>>
NULL    == <<>>
Some(v) == <<v>>

Estados   == {"subido", "en_cola", "procesando", "procesado", "error"}
Terminal  == {"procesado", "error"}
Status    == {202, 401, 404, 409}
Ops       == {"download", "delete", "insert", "cas_false", "skip", "ftp_error",
              "interrupted"}

\* ------------------------------------------------ downloaded file content
\* A data line of the sheet is summarised by the year of its date, or Blank
\* for a line with no number, date, duration or coordinate.
Blank   == NULL
EnRango == Some(CurrentYear + 1)
Futuro  == Some(CurrentYear + 2)

\* the data lines of the sheets tried
Sheets == {<<>>, <<Blank>>, <<EnRango>>, <<Futuro>>, <<EnRango, Futuro>>}

\* header: where the Telcel header row is ("top" = first row, "below" = after
\* metadata rows), or "generic" when no row scores as a Telcel header.
Contents ==
    {[ext |-> "xlsx", readable |-> TRUE, header |-> h, lines |-> l] :
        h \in {"top", "below", "generic"}, l \in Sheets}
    \cup {[ext |-> "xlsx", readable |-> FALSE, header |-> "generic", lines |-> <<>>],
          [ext |-> "pdf",  readable |-> TRUE,  header |-> "generic", lines |-> <<>>]}

NoAnswer == [id |-> 0, status |-> 0, detail |-> ""]

NoFile == [ext |-> "", readable |-> FALSE, header |-> "", lines |-> <<>>]

\* ------------------------------------------------------------- repository
get_archivo_by_id(db, id) ==
    IF id \in DOMAIN db THEN Some(db[id]) ELSE NULL

\* mutant: the UPDATE without "AND estado = :expected"
try_mark_rowcount_sin_estado(db, id, expected) ==
    IF id \in DOMAIN db THEN 1 ELSE 0

\* rowcount of the conditional UPDATE of try_mark_estado
try_mark_rowcount(db, id, expected) ==
    IF id \in DOMAIN db /\ db[id].estado = expected THEN 1 ELSE 0

\* mutant: the new estado written whatever the stored one is
try_mark_estado_incondicional(db, id, expected, new_state, set_inicio, set_termino, now) ==
    IF id \in DOMAIN db
    THEN [db EXCEPT ![id] =
            [estado        |-> new_state,
             fecha_inicio  |-> IF set_inicio  THEN Some(now) ELSE @.fecha_inicio,
             fecha_termino |-> IF set_termino THEN Some(now) ELSE @.fecha_termino]]
    ELSE db

try_mark_estado(db, id, expected, new_state, set_inicio, set_termino, now) ==
    IF try_mark_rowcount(db, id, expected) = 1
    THEN [db EXCEPT ![id] =
            [estado        |-> new_state,
             fecha_inicio  |-> IF set_inicio  THEN Some(now) ELSE @.fecha_inicio,
             fecha_termino |-> IF set_termino THEN Some(now) ELSE @.fecha_termino]]
    ELSE db

\* mutant: mark_error that writes nothing
mark_error_sin_update(db, id, now) ==
    db

\* mutant: mark_error that leaves fecha_termino alone
mark_error_sin_fecha(db, id, now) ==
    IF id \in DOMAIN db
    THEN [db EXCEPT ![id].estado = "error"]
    ELSE db

mark_error(db, id, now) ==
    IF id \in DOMAIN db
    THEN [db EXCEPT ![id].estado = "error", ![id].fecha_termino = Some(now)]
    ELSE db

\* mutant: a DELETE without its WHERE clause
delete_sin_where(tbl, id_sabanas) ==
    <<>>

\* mutant: a DELETE that removes no row
delete_sin_efecto(tbl, id_sabanas) ==
    tbl

delete_registros_telefonicos_by_archivo(tbl, id_sabanas) ==
    SelectSeq(tbl, LAMBDA r : r.id_sabanas # id_sabanas)

\* range validation of fecha_hora in insert_registros_telefonicos_bulk
fecha_fuera_de_rango(r) ==
    /\ r.fecha_hora # NULL
    /\ (r.fecha_hora[1] > CurrentYear + 1 \/ r.fecha_hora[1] < 1970)

insert_raises(rows) ==
    \E i \in 1 .. Len(rows) : fecha_fuera_de_rango(rows[i])

\* mutant: each row inserted as soon as it is validated, so the rows before
\* the first invalid one are stored
RECURSIVE insert_por_fila(_, _)
insert_por_fila(tbl, rows) ==
    IF rows = <<>> \/ fecha_fuera_de_rango(Head(rows)) THEN tbl
    ELSE insert_por_fila(Append(tbl, Head(rows)), Tail(rows))

\* the table after the call: every row is validated before the one INSERT
\* statement, which runs in one transaction
insert_registros_telefonicos_bulk(tbl, rows) ==
    IF insert_raises(rows) THEN tbl ELSE tbl \o rows

\* ------------------------------------------------------- parsers of run_etl
RECURSIVE telcel_rows(_, _)
telcel_rows(id, lines) ==
    IF lines = <<>> THEN <<>>
    ELSE LET rest == telcel_rows(id, Tail(lines))
         IN  IF Head(lines) = Blank THEN rest
             ELSE <<[id_sabanas |-> id, numero_a |-> "A",
                     fecha_hora |-> Head(lines)]>> \o rest

RECURSIVE generic_lines(_, _, _)
generic_lines(id, lines, dated) ==
    IF lines = <<>> THEN <<>>
    ELSE <<[id_sabanas |-> id, numero_a |-> "",
            fecha_hora |-> IF dated /\ Head(lines) # Blank
                           THEN Head(lines) ELSE NULL]>>
         \o generic_lines(id, Tail(lines), dated)

\* rows of the generic fallback: one per sheet row under the first row; a
\* Telcel header that is not the first row is read as one more data row.
generic_rows(id, c) ==
    IF c.header = "below"
    THEN <<[id_sabanas |-> id, numero_a |-> "", fecha_hora |-> NULL]>>
         \o generic_lines(id, c.lines, FALSE)
    ELSE generic_lines(id, c.lines, TRUE)

\* ------------------------------------------------------------------ state
VARIABLES
    archivos,     \* sabanas.archivos: id -> [estado, fecha_inicio, fecha_termino]
    registros,    \* sabanas.registros_telefonicos, in insertion order
    clock,        \* datetime.utcnow() as a logical clock of the writes to a row
    pc,           \* position of each process
    arg,          \* id_archivo of the request a process serves (0: none)
    local,        \* content of the file at local_path of a running worker
    rows,         \* rows built by the parser of a running worker
    signal,       \* what happened so far inside run_etl of a running worker
    resp,         \* the HTTP answer sent last: [id, status, detail]
    accepted,     \* history: 202 answers per id_archivo
    ran,          \* history: for each file, how often each operation ran on it
    wins,         \* history: successful try_mark_estado per <<id, expected>>
    termWrites,   \* history: writes of a terminal state per file
    scratch,      \* ids whose directory LOCAL_TMP_DIR/<id_archivo> exists
    entrada,      \* the frame handed to a row builder (one record per sheet row)
    salida        \* the row builder that ran and the rows it returned

vars == <<archivos, registros, clock, pc, arg, local, rows, signal, resp,
          accepted, ran, wins, termWrites, scratch, entrada, salida>>

OldRow(f) == [id_sabanas |-> f, numero_a |-> "old", fecha_hora |-> Some(CurrentYear)]

\* registros at the start: each file has a row left by an earlier run
prior == <<OldRow(1), OldRow(Antiguo)>>

\* no row builder has run
NoOutput == [parser |-> "", rows |-> <<>>]

\* the tables, the processes and the histories after start-up
InitJobs ==
    /\ archivos = [f \in Files |->
                     IF f \in Nuevos
                     THEN [estado |-> "subido", fecha_inicio |-> NULL,
                           fecha_termino |-> NULL]
                     ELSE [estado |-> "procesado", fecha_inicio |-> Some(1),
                           fecha_termino |-> Some(2)]]
    /\ registros = prior
    /\ clock = [f \in Files |-> IF f \in Nuevos THEN 1 ELSE 3]
    /\ pc = [p \in Procs |-> "idle"]
    /\ arg = [p \in Procs |-> 0]
    /\ local = [p \in Procs |-> NoFile]
    /\ rows = [p \in Procs |-> <<>>]
    /\ signal = [p \in Procs |-> {}]
    /\ resp = NoAnswer
    /\ accepted = [i \in Ids |-> 0]
    /\ ran = [f \in Files |-> [o \in Ops |-> 0]]
    /\ wins = [k \in Files \X Estados |-> 0]
    /\ termWrites = [f \in Files |-> 0]
    /\ scratch = {}

Init ==
    /\ InitJobs
    /\ entrada = <<>>
    /\ salida = NoOutput

\* the HTTP answer to a request for id is sent
Answer(id, status, detail) ==
    /\ resp' = [id |-> id, status |-> status, detail |-> detail]
    /\ accepted' = [accepted EXCEPT ![id] = @ + (IF status = 202 THEN 1 ELSE 0)]

\* the process forgets what it worked on
Finish(p) ==
    /\ pc' = [pc EXCEPT ![p] = "done"]
    /\ arg' = [arg EXCEPT ![p] = 0]
    /\ rows' = [rows EXCEPT ![p] = <<>>]
    /\ local' = [local EXCEPT ![p] = NoFile]
    /\ signal' = [signal EXCEPT ![p] = {}]

\* processes are numbered in the order in which their request arrives
Arrives(p) ==
    /\ pc[p] = "idle"
    /\ \A q \in Procs : q < p => pc[q] # "idle"

\* ------------------------------------------------------------ HTTP surface
\* POST /jobs/sabanas: require_api_key, then accept_job_sabana starts.
enqueue_sabana_job(p, id, authOk) ==
    /\ Arrives(p)
    /\ scratch' = scratch
    /\ UNCHANGED <<entrada, salida>>
    /\ IF authOk
       THEN /\ pc' = [pc EXCEPT ![p] = "accept_get"]
            /\ arg' = [arg EXCEPT ![p] = id]
            /\ UNCHANGED <<resp, accepted>>
       ELSE /\ pc' = [pc EXCEPT ![p] = "done"]
            /\ Answer(id, 401, "")
            /\ arg' = arg
    /\ UNCHANGED <<archivos, registros, clock, local, rows, signal,
                   ran, wins, termWrites>>

\* a worker of another process runs process_job_sabana(id) on its own
StartWorker(p, id) ==
    /\ Arrives(p)
    /\ scratch' = scratch
    /\ UNCHANGED <<entrada, salida>>
    /\ arg' = [arg EXCEPT ![p] = id]
    /\ pc' = [pc EXCEPT ![p] = "process_get"]
    /\ UNCHANGED <<archivos, registros, clock, resp, accepted, local, rows,
                   signal, ran, wins, termWrites>>

\* ---------------------------------------------------------- accept_job_sabana
\* mutant: accept_job_sabana without the check of the estado it read
AcceptGet_sin_409(p) ==
    /\ pc[p] = "accept_get"
    /\ scratch' = scratch
    /\ UNCHANGED <<entrada, salida>>
    /\ LET row == get_archivo_by_id(archivos, arg[p]) IN
         IF row = NULL
         THEN /\ Answer(arg[p], 404, "")
              /\ Finish(p)
         ELSE /\ pc' = [pc EXCEPT ![p] = "accept_cas"]
              /\ UNCHANGED <<resp, accepted, arg, rows, local, signal>>
    /\ UNCHANGED <<archivos, registros, clock, ran, wins, termWrites>>

\* get_archivo_by_id and the two checks on the row read
AcceptGet(p) ==
    /\ pc[p] = "accept_get"
    /\ scratch' = scratch
    /\ UNCHANGED <<entrada, salida>>
    /\ LET row == get_archivo_by_id(archivos, arg[p]) IN
         IF row = NULL
         THEN /\ Answer(arg[p], 404, "")
              /\ Finish(p)
         ELSE IF row[1].estado # "subido"
         THEN /\ Answer(arg[p], 409, row[1].estado)
              /\ Finish(p)
         ELSE /\ pc' = [pc EXCEPT ![p] = "accept_cas"]
              /\ UNCHANGED <<resp, accepted, arg, rows, local, signal>>
    /\ UNCHANGED <<archivos, registros, clock, ran, wins, termWrites>>

\* mutant: the route adds the background task whatever accept_job_sabana did
AcceptCas_agenda_siempre(p) ==
    /\ pc[p] = "accept_cas"
    /\ scratch' = scratch
    /\ UNCHANGED <<entrada, salida>>
    /\ LET id == arg[p]
           ok == try_mark_rowcount(archivos, id, "subido") = 1 IN
         /\ archivos' = try_mark_estado(archivos, id, "subido", "en_cola",
                                        FALSE, FALSE, clock[id])
         /\ IF ok THEN Answer(id, 202, "") ELSE Answer(id, 409, "cambio")
         /\ pc' = [pc EXCEPT ![p] = "process_get"]
         /\ wins' = [wins EXCEPT ![<<id, "subido">>] = @ + (IF ok THEN 1 ELSE 0)]
         /\ UNCHANGED <<arg, rows, local, signal>>
    /\ UNCHANGED <<registros, clock, ran, termWrites>>

\* try_mark_estado(subido -> en_cola); on success the route answers 202 and
\* adds process_job_sabana as a background task
AcceptCas(p) ==
    /\ pc[p] = "accept_cas"
    /\ scratch' = scratch
    /\ UNCHANGED <<entrada, salida>>
    /\ LET id == arg[p]
           ok == try_mark_rowcount(archivos, id, "subido") = 1 IN
         /\ archivos' = try_mark_estado(archivos, id, "subido", "en_cola",
                                        FALSE, FALSE, clock[id])
         /\ IF ok
            THEN /\ Answer(id, 202, "")
                 /\ pc' = [pc EXCEPT ![p] = "process_get"]
                 /\ wins' = [wins EXCEPT ![<<id, "subido">>] = @ + 1]
                 /\ UNCHANGED <<arg, rows, local, signal>>
            ELSE /\ Answer(id, 409, "cambio")
                 /\ Finish(p)
                 /\ wins' = wins
    /\ UNCHANGED <<registros, clock, ran, termWrites>>

\* --------------------------------------------------------- process_job_sabana
ProcessGet(p) ==
    /\ pc[p] = "process_get"
    /\ scratch' = scratch
    /\ UNCHANGED <<entrada, salida>>
    /\ LET row == get_archivo_by_id(archivos, arg[p]) IN
         IF row = NULL \/ row[1].estado # "en_cola"
         THEN /\ Finish(p)
              /\ ran' = IF row = NULL THEN ran
                        ELSE [ran EXCEPT ![arg[p]]["skip"] = @ + 1]
         ELSE /\ pc' = [pc EXCEPT ![p] = "process_cas"]
              /\ UNCHANGED <<ran, arg, rows, local, signal>>
    /\ UNCHANGED <<archivos, registros, clock, resp, accepted, wins, termWrites>>

\* mutant: the result of try_mark_estado(en_cola -> procesando) ignored
ProcessCas_sin_retorno(p) ==
    /\ pc[p] = "process_cas"
    /\ scratch' = scratch
    /\ UNCHANGED <<entrada, salida>>
    /\ LET id == arg[p]
           ok == try_mark_rowcount(archivos, id, "en_cola") = 1 IN
         /\ archivos' = try_mark_estado(archivos, id, "en_cola", "procesando",
                                        TRUE, FALSE, clock[id])
         /\ pc' = [pc EXCEPT ![p] = "download"]
         /\ wins' = [wins EXCEPT ![<<id, "en_cola">>] = @ + (IF ok THEN 1 ELSE 0)]
         /\ clock' = [clock EXCEPT ![id] = @ + (IF ok THEN 1 ELSE 0)]
         /\ UNCHANGED <<ran, arg, rows, local, signal>>
    /\ UNCHANGED <<registros, resp, accepted, termWrites>>

ProcessCas(p) ==
    /\ pc[p] = "process_cas"
    /\ scratch' = scratch
    /\ UNCHANGED <<entrada, salida>>
    /\ LET id == arg[p]
           ok == try_mark_rowcount(archivos, id, "en_cola") = 1 IN
         /\ archivos' = try_mark_estado(archivos, id, "en_cola", "procesando",
                                        TRUE, FALSE, clock[id])
         /\ IF ok
            THEN /\ pc' = [pc EXCEPT ![p] = "download"]
                 /\ wins' = [wins EXCEPT ![<<id, "en_cola">>] = @ + 1]
                 /\ clock' = [clock EXCEPT ![id] = @ + 1]
                 /\ UNCHANGED <<ran, arg, rows, local, signal>>
            ELSE /\ Finish(p)
                 /\ ran' = [ran EXCEPT ![id]["cas_false"] = @ + 1]
                 /\ UNCHANGED <<wins, clock>>
    /\ UNCHANGED <<registros, resp, accepted, termWrites>>

\* ------------------------------------------------------------------ run_etl
\* the Telcel part reads the sheet without raising and finds a table in it
telcel_frames(c) ==
    c.ext = "xlsx" /\ c.readable /\ c.header \in {"top", "below"} /\ Len(c.lines) > 0

\* the Telcel part raises while reading the sheet
telcel_read_raises(c) ==
    c.ext = "xlsx" /\ ~c.readable

\* what a parser that built rs adds to signal
Parsed(name, rs) == {name} \cup (IF rs = <<>> THEN {"cero"} ELSE {})

\* run_etl is about to return value: the file read is dead; on success rows
\* stays as the record of what the parser returned in this run
Return(p, value, sig) ==
    /\ pc' = [pc EXCEPT ![p] = IF value THEN "mark_done" ELSE "mark_error"]
    /\ signal' = [signal EXCEPT ![p] = @ \cup sig \cup (IF value THEN {} ELSE {"false"})]
    /\ rows' = IF value THEN rows ELSE [rows EXCEPT ![p] = <<>>]
    /\ local' = [local EXCEPT ![p] = NoFile]

\* generic fallback up to its delete: the sheet read with its first row as the
\* header; run_etl returns False for another extension or when the read raises
Fallback(p, c, sig) ==
    IF c.ext # "xlsx"
    THEN Return(p, FALSE, sig)
    ELSE IF ~c.readable
    THEN Return(p, FALSE, sig \cup {"raised"})
    ELSE LET rs == generic_rows(arg[p], c) IN
         /\ rows' = [rows EXCEPT ![p] = rs]
         /\ local' = [local EXCEPT ![p] = NoFile]
         /\ pc' = [pc EXCEPT ![p] = "g_delete"]
         /\ signal' = [signal EXCEPT ![p] = @ \cup sig \cup Parsed("generic", rs)]

\* os.makedirs + ftp_download: fails, or leaves a file in the scratch
\* directory; then run_etl up to its first statement on the database
Download(p) ==
    /\ pc[p] = "download"
    /\ UNCHANGED <<entrada, salida>>
    /\ \/ \* os.makedirs raises, or it makes the directory and the transfer raises
          /\ pc' = [pc EXCEPT ![p] = "mark_error"]
          /\ ran' = [ran EXCEPT ![arg[p]]["download"] = @ + 1,
                                ![arg[p]]["ftp_error"] = @ + 1]
          /\ \E made \in BOOLEAN :
                scratch' = IF made THEN scratch \cup {arg[p]} ELSE scratch
          /\ UNCHANGED <<local, rows, signal>>
       \/ \E c \in Contents :
             /\ scratch' = scratch \cup {arg[p]}
             /\ ran' = [ran EXCEPT ![arg[p]]["download"] = @ + 1]
             /\ IF telcel_frames(c)
                THEN LET rs == telcel_rows(arg[p], c.lines) IN
                     /\ local' = [local EXCEPT ![p] = c]
                     /\ rows' = [rows EXCEPT ![p] = rs]
                     /\ pc' = [pc EXCEPT ![p] = "t_delete"]
                     /\ signal' = [signal EXCEPT ![p] = @ \cup Parsed("telcel", rs)]
                ELSE Fallback(p, c, IF telcel_read_raises(c) THEN {"raised"} ELSE {})
    /\ UNCHANGED <<archivos, registros, clock, arg, resp, accepted, wins,
                   termWrites>>

\* delete of the Telcel part, committed on its own; with no rows run_etl
\* returns inserted > 0, that is False
TelcelDelete(p) ==
    /\ pc[p] = "t_delete"
    /\ scratch' = scratch
    /\ UNCHANGED <<entrada, salida>>
    /\ \/ /\ registros' = delete_registros_telefonicos_by_archivo(registros, arg[p])
          /\ ran' = [ran EXCEPT ![arg[p]]["delete"] = @ + 1]
          /\ IF rows[p] # <<>>
             THEN /\ pc' = [pc EXCEPT ![p] = "t_insert"]
                  /\ UNCHANGED <<signal, rows, local>>
             ELSE Return(p, FALSE, {})
       \/ \* the storage engine fails: caught, run_etl goes on to the fallback
          /\ Fallback(p, local[p], {"raised"})
          /\ UNCHANGED <<registros, ran>>
    /\ UNCHANGED <<archivos, clock, arg, resp, accepted, wins, termWrites>>

TelcelInsert(p) ==
    /\ pc[p] = "t_insert"
    /\ scratch' = scratch
    /\ UNCHANGED <<entrada, salida>>
    /\ \/ /\ ~insert_raises(rows[p])
          /\ registros' = insert_registros_telefonicos_bulk(registros, rows[p])
          /\ ran' = [ran EXCEPT ![arg[p]]["insert"] = @ + 1]
          /\ Return(p, TRUE, {})
       \/ /\ insert_raises(rows[p])
          /\ registros' = insert_registros_telefonicos_bulk(registros, rows[p])
          /\ Fallback(p, local[p], {"raised", "insert", "telcel_rango"})
          /\ ran' = ran
       \/ \* the storage engine fails
          /\ Fallback(p, local[p], {"raised", "insert"})
          /\ UNCHANGED <<registros, ran>>
    /\ UNCHANGED <<archivos, clock, arg, resp, accepted, wins, termWrites>>

GenericDelete(p) ==
    /\ pc[p] = "g_delete"
    /\ scratch' = scratch
    /\ UNCHANGED <<entrada, salida>>
    /\ \/ /\ registros' = delete_registros_telefonicos_by_archivo(registros, arg[p])
          /\ ran' = [ran EXCEPT ![arg[p]]["delete"] = @ + 1]
          /\ pc' = [pc EXCEPT ![p] = "g_insert"]
          /\ UNCHANGED <<signal, rows, local>>
       \/ \* the storage engine fails
          /\ Return(p, FALSE, {"raised"})
          /\ UNCHANGED <<registros, ran>>
    /\ UNCHANGED <<archivos, clock, arg, resp, accepted, wins, termWrites>>

\* with no rows the bulk insert returns 0 at once and run_etl returns True
GenericInsert(p) ==
    /\ pc[p] = "g_insert"
    /\ scratch' = scratch
    /\ UNCHANGED <<entrada, salida>>
    /\ \/ /\ ~insert_raises(rows[p])
          /\ registros' = insert_registros_telefonicos_bulk(registros, rows[p])
          /\ ran' = [ran EXCEPT ![arg[p]]["insert"] =
                        @ + (IF rows[p] # <<>> THEN 1 ELSE 0)]
          /\ Return(p, TRUE, {})
       \/ /\ insert_raises(rows[p])
          /\ registros' = insert_registros_telefonicos_bulk(registros, rows[p])
          /\ Return(p, FALSE, {"raised", "insert"})
          /\ ran' = ran
       \/ \* the storage engine fails
          /\ rows[p] # <<>>
          /\ Return(p, FALSE, {"raised", "insert"})
          /\ UNCHANGED <<registros, ran>>
    /\ UNCHANGED <<archivos, clock, arg, resp, accepted, wins, termWrites>>

\* -------------------------------------------- end of process_job_sabana
MarkError(p) ==
    /\ pc[p] = "mark_error"
    /\ scratch' = scratch
    /\ UNCHANGED <<entrada, salida>>
    /\ archivos' = mark_error(archivos, arg[p], clock[arg[p]])
    /\ clock' = [clock EXCEPT ![arg[p]] = @ + 1]
    /\ termWrites' = [termWrites EXCEPT ![arg[p]] = @ + 1]
    /\ Finish(p)
    /\ UNCHANGED <<registros, resp, accepted, ran, wins>>

MarkProcesado(p) ==
    /\ pc[p] = "mark_done"
    /\ scratch' = scratch
    /\ UNCHANGED <<entrada, salida>>
    /\ LET id == arg[p]
           ok == try_mark_rowcount(archivos, id, "procesando") = 1 IN
         /\ archivos' = try_mark_estado(archivos, id, "procesando", "procesado",
                                        FALSE, TRUE, clock[id])
         /\ IF ok
            THEN /\ wins' = [wins EXCEPT ![<<id, "procesando">>] = @ + 1]
                 /\ termWrites' = [termWrites EXCEPT ![id] = @ + 1]
                 /\ clock' = [clock EXCEPT ![id] = @ + 1]
            ELSE UNCHANGED <<wins, termWrites, clock>>
    /\ Finish(p)
    /\ UNCHANGED <<registros, resp, accepted, ran>>

Next ==
    \/ \E p \in Procs, id \in Ids, authOk \in BOOLEAN : enqueue_sabana_job(p, id, authOk)
    \/ \E p \in Procs, id \in Ids : StartWorker(p, id)
    \/ \E p \in Procs : AcceptGet(p)
    \/ \E p \in Procs : AcceptCas(p)
    \/ \E p \in Procs : ProcessGet(p)
    \/ \E p \in Procs : ProcessCas(p)
    \/ \E p \in Procs : Download(p)
    \/ \E p \in Procs : TelcelDelete(p)
    \/ \E p \in Procs : TelcelInsert(p)
    \/ \E p \in Procs : GenericDelete(p)
    \/ \E p \in Procs : GenericInsert(p)
    \/ \E p \in Procs : MarkError(p)
    \/ \E p \in Procs : MarkProcesado(p)

Spec == Init /\ [][Next]_vars

\* a request or a background task that has started runs to its end
Step(p) ==
    \/ AcceptGet(p) \/ AcceptCas(p) \/ ProcessGet(p) \/ ProcessCas(p)
    \/ Download(p) \/ TelcelDelete(p) \/ TelcelInsert(p)
    \/ GenericDelete(p) \/ GenericInsert(p)
    \/ MarkError(p) \/ MarkProcesado(p)

FairSpec == Spec /\ \A p \in Procs : WF_vars(Step(p))

\* ------------------------------------------------------------- the carrier
\* column id_compania_telefonica of sabanas.archivos, read by
\* get_archivo_by_id and written by no code of the server: file 1 is an
\* AT&T file, the file processed earlier a Telcel one
id_compania_telefonica == [f \in Files |-> IF f \in Nuevos THEN 4 ELSE 1]

\* the parser run_etl has run for a worker with signal sig: its Telcel part,
\* or its generic fallback; run_etl is given id_archivo and local_path only
parser_of_run(sig) ==
    IF "generic" \in sig THEN "GENERICO" ELSE "TELCEL"

\* ------------------------------------------------------------ interruption
\* the process running a worker dies between try_mark_estado(en_cola ->
\* procesando) and the terminal write; nothing in the code runs for it again
Interrupt(p) ==
    /\ pc[p] \in {"download", "t_delete", "t_insert", "g_delete", "g_insert",
                  "mark_error", "mark_done"}
    /\ scratch' = scratch
    /\ UNCHANGED <<entrada, salida>>
    /\ ran' = [ran EXCEPT ![arg[p]]["interrupted"] = @ + 1]
    /\ Finish(p)
    /\ UNCHANGED <<archivos, registros, clock, resp, accepted, wins, termWrites>>

NextCrash ==
    \/ Next
    \/ \E p \in Procs : Interrupt(p)

CrashSpec == Init /\ [][NextCrash]_vars

\* --------------------------------------------------------- row builders
\* telcel_v1.py and att.py read every sheet with dtype=str: a cell is its
\* text, and an empty cell is the float NaN, whose str() is "nan".  A float
\* is written by its repr ("120.0"), None is NULL, a present value is Some(v).
NaN == "nan"

LatCells == {NaN, "", "N/D", "19.43", "19 25'42 N", "[19.43:0]"}
LonCells == {NaN, "N/D", "-99.13"}
AzCells == {NaN, "0", "120", "[30:40]", "N/D"}
NumCells == {NaN, "", "5512345678"}

\* the imei cell is kept character by character
Chars(n, c) == [i \in 1 .. n |-> c]

ImeiCells == {<<"n", "a", "n">>, <<"S", "/", "N">>, <<"3", "5", "-", "6">>,
              Chars(15, "3"), Chars(16, "3")}

\* fecha_hora.iloc[i]: pd.NaT, or the Timestamp the date parser produced
NaT == "NaT"
FechaCells == {NaT, "2024-05-01 10:00:00"}

\* the texts of a "Durac. Seg." cell
DuracCells == {"10", "N/D"}

RawRows == [numero_a : NumCells, fa : FechaCells, latitud : LatCells,
            longitud : LonCells, azimuth : AzCells, imei : ImeiCells,
            durac_seg : DuracCells]

\* float(s) of Python; NULL stands for the ValueError it raises
py_float(s) ==
    CASE s = "19.43"  -> Some("19.43")
      [] s = "-99.13" -> Some("-99.13")
      [] s = "0"      -> Some("0.0")
      [] s = "120"    -> Some("120.0")
      [] s = "30"     -> Some("30.0")
      [] s = "10"     -> Some("10.0")
      [] s = "20"     -> Some("20.0")
      [] s = "-5"     -> Some("-5.0")
      [] s = "nan"    -> Some(NaN)
      [] OTHER        -> NULL

\* s.lower()
lower(s) ==
    CASE s = "N/D"        -> "n/d"
      [] s = "19 25'42 N" -> "19 25'42 n"
      [] OTHER            -> s

\* DMS_RE.match(s) followed by deg + min / 60 + sec / 3600 and the sign of
\* the hemisphere; NULL when the expression does not match
dms_value(s) ==
    IF s \in {"19 25'42 N", "19 25'42 n"} THEN Some("19.428333333333335") ELSE NULL

\* the text holds one of the marks of a sexagesimal coordinate
has_dms_mark(s) == s \in {"19 25'42 N", "19 25'42 n"}

\* the parts of a text of the form [a:b:c]; NULL when it has another form
list_parts(s) ==
    CASE s = "[30:40]"   -> Some(<<"30", "40">>)
      [] s = "[19.43:0]" -> Some(<<"19.43", "0">>)
      [] OTHER           -> NULL

IsDigit(c) == c \in {"0", "1", "2", "3", "4", "5", "6", "7", "8", "9"}

\* re.sub(r"\D", "", s) of the text of a number cell
only_digits(s) == IF s \in {"5512345678", "5598765432"} THEN s ELSE ""

dms_to_decimal(s) ==
    IF ~has_dms_mark(s) THEN py_float(s) ELSE dms_value(s)

dms_to_decimal_att(s) ==
    LET s_str == lower(s) IN
    IF s_str \in {"", "nan", "none", "null", "na", "n/a"} THEN NULL
    ELSE IF ~has_dms_mark(s_str)
         THEN (IF py_float(s_str) = Some(NaN) THEN NULL ELSE py_float(s_str))
         ELSE dms_value(s_str)

clean_imei(x) ==
    LET s == SelectSeq(x, IsDigit) IN
    IF x = <<>> \/ s = <<>> THEN NULL
    ELSE Some(SubSeq(s, 1, IF Len(s) < 15 THEN Len(s) ELSE 15))

\* x or y of Python on optional texts: None and "" are false
Truthy(x) == x # NULL /\ x # Some("")

PyOr(x, y) == IF Truthy(x) THEN x ELSE y

\* pd.to_numeric(col, errors="coerce") of one cell
to_numeric(s) == IF py_float(s) = NULL THEN NaN ELSE py_float(s)[1]

clean_msisdn(x) ==
    IF x = "" THEN NULL
    ELSE IF only_digits(x) # "" THEN Some(only_digits(x)) ELSE Some(x)

clean_msisdn_att(x) ==
    IF x = "" \/ only_digits(x) = "" THEN NULL ELSE Some(only_digits(x))

\* a = a_clean if a_clean is not None else (str(raw_a).strip() if raw_a not
\* in (None, "") else None)
numero_de(a_clean, raw_a) ==
    IF a_clean # NULL THEN a_clean
    ELSE IF raw_a # "" THEN Some(raw_a) ELSE NULL

\* the loop over reversed(parts) of _pick_last_nonzero, from part i down
RECURSIVE last_nonzero(_, _)
last_nonzero(parts, i) ==
    IF i = 0 THEN NULL
    ELSE IF py_float(parts[i]) = NULL
         THEN (IF parts[i] # "" THEN Some(parts[i]) ELSE last_nonzero(parts, i - 1))
         ELSE IF py_float(parts[i]) # Some("0.0") THEN Some(parts[i])
              ELSE last_nonzero(parts, i - 1)

pick_last_nonzero(s) ==
    IF s = "" THEN NULL
    ELSE IF list_parts(s) = NULL THEN Some(s)
    ELSE LET parts == list_parts(s)[1]
             chosen == last_nonzero(parts, Len(parts))
         IN  IF chosen # NULL THEN chosen
             ELSE IF parts # <<>> THEN Some(parts[Len(parts)]) ELSE NULL

\* the loop over the parts of _parse_azimuth, from part i up
RECURSIVE first_float(_, _)
first_float(parts, i) ==
    IF i > Len(parts) THEN NULL
    ELSE IF parts[i] # "" /\ py_float(parts[i]) # NULL THEN py_float(parts[i])
         ELSE first_float(parts, i + 1)

parse_azimuth(val) ==
    IF val = "" \/ lower(val) = "nan" THEN NULL
    ELSE IF list_parts(val) # NULL THEN first_float(list_parts(val)[1], 1)
    ELSE py_float(val)

\* int(durac.iloc[i]) of the column pd.to_numeric(..., errors="coerce") made,
\* and 0 for a cell that column holds NaN for
durac_int(s) ==
    CASE to_numeric(s) = "10.0" -> 10
      [] to_numeric(s) = "20.0" -> 20
      [] to_numeric(s) = "-5.0" -> 0 - 5
      [] OTHER                  -> 0

\* the texts the row builders treat as no value: x in (None, "", "NaN")
Vacio(x) == x \in {NULL, Some(""), Some("NaN")}

\* one pass of the loop of _frame_to_rows (no column telefono in the frame)
telcel_row(r) ==
    LET az    == IF to_numeric(r.azimuth) = NaN THEN "0.0" ELSE to_numeric(r.azimuth)
        a     == numero_de(clean_msisdn(r.numero_a), r.numero_a)
        lat_d == IF ~Vacio(Some(r.latitud)) THEN dms_to_decimal(r.latitud) ELSE NULL
        lon_d == IF ~Vacio(Some(r.longitud)) THEN dms_to_decimal(r.longitud) ELSE NULL
    IN  [numero_a         |-> a,
         fecha_hora       |-> IF r.fa = NaT THEN NULL ELSE Some(r.fa),
         duracion         |-> durac_int(r.durac_seg),
         latitud          |-> IF ~Vacio(Some(r.latitud)) THEN Some(r.latitud) ELSE NULL,
         longitud         |-> IF ~Vacio(Some(r.longitud)) THEN Some(r.longitud) ELSE NULL,
         azimuth          |-> Some(az),
         latitud_decimal  |-> lat_d,
         longitud_decimal |-> lon_d,
         imei             |-> clean_imei(r.imei),
         telefono         |-> PyOr(a, NULL)]

\* _clean_imei returns None or a non-empty text, so "not imei" is "is None"
is_meaningful(r) ==
    /\ r.imei # NULL
    /\ Truthy(r.latitud) /\ Truthy(r.longitud)
    /\ r.azimuth \notin {NULL, Some("0.0"), Some(""), Some("NaN")}

frame_to_rows(tbl) ==
    SelectSeq([i \in 1 .. Len(tbl) |-> telcel_row(tbl[i])], is_meaningful)

\* one pass of the loop of _frame_to_rows_att
att_row(r, telefono_archivo) ==
    LET a        == numero_de(clean_msisdn_att(r.numero_a), r.numero_a)
        lat_pick == IF ~Vacio(Some(r.latitud)) THEN pick_last_nonzero(r.latitud) ELSE NULL
        lon_pick == IF ~Vacio(Some(r.longitud)) THEN pick_last_nonzero(r.longitud) ELSE NULL
        lat_d    == IF ~Vacio(lat_pick) THEN dms_to_decimal_att(lat_pick[1]) ELSE NULL
        lon_d    == IF ~Vacio(lon_pick) THEN dms_to_decimal_att(lon_pick[1]) ELSE NULL
    IN  [numero_a         |-> a,
         fecha_hora       |-> IF r.fa = NaT THEN NULL ELSE Some(r.fa),
         latitud          |-> IF ~Vacio(lat_pick) THEN lat_pick ELSE NULL,
         longitud         |-> IF ~Vacio(lon_pick) THEN lon_pick ELSE NULL,
         azimuth          |-> parse_azimuth(r.azimuth),
         latitud_decimal  |-> lat_d,
         longitud_decimal |-> lon_d,
         imei             |-> clean_imei(r.imei),
         telefono         |-> PyOr(PyOr(telefono_archivo, a), NULL)]

is_meaningful_att(r) ==
    /\ r.fecha_hora # NULL
    /\ Truthy(PyOr(r.numero_a, r.telefono))
    /\ Truthy(r.latitud) /\ Truthy(r.longitud)
    /\ r.latitud_decimal # NULL /\ r.longitud_decimal # NULL
    /\ r.azimuth \notin {NULL, Some("0.0"), Some("")}

frame_to_rows_att(tbl, telefono_archivo) ==
    SelectSeq([i \in 1 .. Len(tbl) |-> att_row(tbl[i], telefono_archivo)],
              is_meaningful_att)

\* the MSISDN taken from the file name, when it has one
Telefonos == {NULL, Some("5512345678")}

\* a frame is handed to the Telcel row builder
TelcelFrameToRows ==
    /\ salida = NoOutput
    /\ salida' = [parser |-> "telcel", rows |-> frame_to_rows(entrada)]
    /\ UNCHANGED <<archivos, registros, clock, pc, arg, local, rows, signal,
                   resp, accepted, ran, wins, termWrites, scratch, entrada>>

\* a frame is handed to the AT&T row builder
AttFrameToRows(telefono_archivo) ==
    /\ salida = NoOutput
    /\ salida' = [parser |-> "att",
                  rows |-> frame_to_rows_att(entrada, telefono_archivo)]
    /\ UNCHANGED <<archivos, registros, clock, pc, arg, local, rows, signal,
                   resp, accepted, ran, wins, termWrites, scratch, entrada>>

\* the frames handed to a row builder: one sheet row each
Frames == {<<r>> : r \in RawRows}

InitParser ==
    /\ InitJobs
    /\ entrada \in Frames
    /\ salida = NoOutput

NextParser ==
    \/ TelcelFrameToRows
    \/ \E t \in Telefonos : AttFrameToRows(t)

ParserSpec == InitParser /\ [][NextParser]_vars

\* ------------------------------------------------------ sheets of Movistar
\* movistar.py reads a sheet with header=None, dtype=str: a sheet is the list
\* of its rows and a row the list of its cells, one per column of the sheet
MovCols == <<"TIPO CDR", "NUMERO A", "NUMERO B", "FECHA EVENTO", "HORA EVENTO",
             "DURACION", "IMEI", "LATITUD", "LONGITUD">>

MOVISTAR_EXPECTED_TOKENS ==
    {"TIPO CDR", "NUMERO A", "NUMERO B", "TIPO EVENTO", "FECHA EVENTO",
     "HORA EVENTO", "DURACION", "IMEI", "IMSI", "CODBTS", "LATITUD", "LONGITUD"}

\* re.sub(r"\s+", " ", str(c).strip()).upper()
normalize_colname(c) ==
    CASE c = "tipo cdr"    -> "TIPO CDR"
      [] c = " Numero  A " -> "NUMERO A"
      [] c = "sms"         -> "SMS"
      [] c = NaN           -> "NAN"
      [] OTHER             -> c

\* s.strip().upper()
strip_upper(s) ==
    CASE s = "tipo cdr"    -> "TIPO CDR"
      [] s = " Numero  A " -> "NUMERO  A"
      [] s = "sms"         -> "SMS"
      [] OTHER             -> s

\* a header row, a header row written carelessly, and a title row that holds
\* four of the expected names only
MovHeader == MovCols
MovHeaderSucio == <<"tipo cdr", " Numero  A ", "NUMERO B", "FECHA EVENTO",
                    "HORA EVENTO", "DURACION", "IMEI", "LATITUD", "LONGITUD">>
MovTitulo == <<"TIPO CDR", "NUMERO A", "NUMERO B", "FECHA EVENTO", NaN, NaN,
               NaN, NaN, NaN>>

\* the texts of a DURACION cell
DurCells == {NaN, "", "10", "20", " 7 ", "1:30", "1:02:03", "1:2:3:4", "12.7",
             "1e3", "-5", "-1:30", "inf", "N/D"}

\* data rows that differ in every column, for sheets of one data row
MovWide ==
    {<<t, a, b, fh[1], fh[2], d, i, la, "-99.13">> :
        t \in {"GSM", "sms"}, a \in {"5511111111", "0000000000", NaN},
        b \in {"5533333333", NaN},
        fh \in {<<"20240101", "120000">>, <<"20990101", "120000">>,
                 <<"01/01/2024", "12:00:00">>, <<"N/D", "120000">>,
                 <<NaN, "120000">>},
        d \in {"10", "-5", "1:30"},
        i \in {"356938035643809", "35693803564380", "S/N"},
        la \in {"19.43", "19 25'42 N", NaN}}

\* one data row for every text of the DURACION cell
MovDur ==
    {<<"GSM", "5511111111", "5533333333", "20240101", "120000", d,
       "356938035643809", "19.43", "-99.13">> : d \in DurCells}

\* data rows that differ in the columns the order and the duplicates depend
\* on, for sheets of several rows
MovNarrow ==
    {<<"GSM", k[1], NaN, k[2], "120000", k[3], "356938035643809", NaN, NaN>> :
        k \in {<<"5511111111", "20240101", "10">>, <<"5511111111", "20240101", "20">>,
                <<"5511111111", "20240102", "10">>, <<"5522222222", "20240101", "10">>}}

\* the list of the values of a function over 1 .. n, one after the other
ListOf(f) == f \o <<>>

\* header_values: the normalized names of the cells of a header row
header_values(row) == ListOf([c \in 1 .. Len(row) |-> normalize_colname(row[c])])

\* index of the first column of the header values hdr whose name is name,
\* or 0
RECURSIVE col_index(_, _, _)
col_index(hdr, name, i) ==
    IF i > Len(hdr) THEN 0
    ELSE IF hdr[i] = name THEN i
    ELSE col_index(hdr, name, i + 1)

\* score of _find_header_rows for one row: the expected names among its cells
header_score_mov(row) ==
    Cardinality(MOVISTAR_EXPECTED_TOKENS
                  \cap {normalize_colname(row[i]) : i \in 1 .. Len(row)})

MovThreshold == 5

\* _find_header_rows: the indices of all rows the score of which reaches the
\* threshold, in order
find_header_rows_mov(df) ==
    SelectSeq([i \in 1 .. Len(df) |-> i],
              LAMBDA i : header_score_mov(df[i]) >= MovThreshold)

\* block.replace({np.nan: None}): the cell of column name of a block row
cell_of(hdr, row, name) ==
    IF col_index(hdr, name, 1) = 0 \/ row[col_index(hdr, name, 1)] = NaN
    THEN NULL
    ELSE Some(row[col_index(hdr, name, 1)])

\* a row of a block, by the names of the header of the block
block_row(hdr, row) ==
    [tipo_cdr     |-> cell_of(hdr, row, "TIPO CDR"),
     numero_a     |-> cell_of(hdr, row, "NUMERO A"),
     numero_b     |-> cell_of(hdr, row, "NUMERO B"),
     fecha_evento |-> cell_of(hdr, row, "FECHA EVENTO"),
     hora_evento  |-> cell_of(hdr, row, "HORA EVENTO"),
     duracion     |-> cell_of(hdr, row, "DURACION"),
     imei         |-> cell_of(hdr, row, "IMEI"),
     latitud      |-> cell_of(hdr, row, "LATITUD"),
     longitud     |-> cell_of(hdr, row, "LONGITUD")]

\* dropna(how="all") keeps a row with a value in one of the kept columns
not_all_na(r) ==
    \E k \in DOMAIN r : r[k] # NULL

\* _row_looks_like_header
row_looks_like_header(r) ==
    \/ r.tipo_cdr # NULL /\ strip_upper(r.tipo_cdr[1]) = "TIPO CDR"
    \/ r.numero_a # NULL /\ strip_upper(r.numero_a[1]) = "NUMERO A"

\* the block between the header row at index start and index stop (the next
\* header row, or the length of the sheet plus one)
block_mov(df, start, stop) ==
    SelectSeq(SelectSeq([k \in 1 .. stop - start - 1 |->
                            block_row(header_values(df[start]), df[start + k])],
                        not_all_na),
              LAMBDA r : ~row_looks_like_header(r))

\* cut_points of _read_all_sheets: the header rows and the end of the sheet
cut_points_mov(df) == find_header_rows_mov(df) \o <<Len(df) + 1>>

\* _read_all_sheets for one sheet: one frame per header row, empty blocks
\* left out
read_all_sheets_mov(df) ==
    LET hs  == find_header_rows_mov(df)
        cut == cut_points_mov(df)
    IN  SelectSeq([j \in 1 .. Len(hs) |-> block_mov(df, cut[j], cut[j + 1])],
                  LAMBDA b : b # <<>>)

\* --------------------------------------------------- cells of Movistar rows
\* s.strip()
strip(s) == IF s = " 7 " THEN "7" ELSE s

\* s.isdigit()
isdigit(s) == s \in {"10", "20", "7", "1", "2", "3", "4", "30", "02", "03"}

\* int(s) of a text of digits
py_int(s) ==
    CASE s = "10" -> 10 [] s = "20" -> 20 [] s = "30" -> 30 [] s = "7" -> 7
      [] s = "1" -> 1 [] s = "2" -> 2 [] s = "3" -> 3 [] s = "4" -> 4
      [] s = "02" -> 2 [] s = "03" -> 3

\* s.split(":")
split_colon(s) ==
    CASE s = "1:30"    -> <<"1", "30">>
      [] s = "1:02:03" -> <<"1", "02", "03">>
      [] s = "1:2:3:4" -> <<"1", "2", "3", "4">>
      [] s = "-1:30"   -> <<"-1", "30">>
      [] OTHER         -> <<s>>

\* int(float(s)); NULL stands for the ValueError or OverflowError it raises
int_float(s) ==
    CASE s = "12.7" -> Some(12)
      [] s = "1e3"  -> Some(1000)
      [] s = "-5"   -> Some(0 - 5)
      [] OTHER      -> NULL

\* _parse_duration_to_seconds of movistar.py and altan.py; x is None or a text
parse_duration_to_seconds(x) ==
    IF x = NULL \/ strip(x[1]) = "" THEN 0
    ELSE LET s     == strip(x[1])
             parts == split_colon(s)
         IN  IF isdigit(s) THEN py_int(s)
             ELSE IF (\A k \in 1 .. Len(parts) : isdigit(parts[k])) /\ Len(parts) = 2
                  THEN py_int(parts[1]) * 60 + py_int(parts[2])
             ELSE IF (\A k \in 1 .. Len(parts) : isdigit(parts[k])) /\ Len(parts) = 3
                  THEN py_int(parts[1]) * 3600 + py_int(parts[2]) * 60 + py_int(parts[3])
             ELSE IF int_float(s) # NULL THEN int_float(s)[1]
             ELSE 0

\* _DIGITS.sub("", s): the digits of a text
digits_of(s) ==
    IF s \in {"5511111111", "5522222222", "5533333333", "0000000000",
              "356938035643809", "35693803564380", "525511111111"}
    THEN s ELSE ""

\* len(d) of a text of digits
len_digits(d) ==
    CASE d = "356938035643809" -> 15
      [] d = "35693803564380"  -> 14
      [] d = "525511111111"    -> 12
      [] d = ""                -> 0
      [] OTHER                 -> 10

only_digits_mov(s) ==
    IF s = NULL \/ strip(s[1]) = "" THEN NULL ELSE Some(digits_of(strip(s[1])))

is_all_zeros(d) == d = "" \/ d = "0000000000"

clean_msisdn_mov(s) ==
    IF only_digits_mov(s) = NULL \/ is_all_zeros(only_digits_mov(s)[1])
    THEN NULL ELSE only_digits_mov(s)

clean_imei_mov(s) ==
    IF only_digits_mov(s) = NULL \/ only_digits_mov(s)[1] = "" THEN NULL
    ELSE IF len_digits(only_digits_mov(s)[1]) # 15 THEN NULL
    ELSE only_digits_mov(s)

\* datetime.strptime(f + h, "%Y%m%d%H%M%S") as <<year, month, day, hour,
\* minute, second>>; NULL stands for the ValueError it raises
strptime_compact(f, h) ==
    CASE f = "20240101" /\ h = "120000" -> Some(<<2024, 1, 1, 12, 0, 0>>)
      [] f = "20240102" /\ h = "120000" -> Some(<<2024, 1, 2, 12, 0, 0>>)
      [] f = "20990101" /\ h = "120000" -> Some(<<2099, 1, 1, 12, 0, 0>>)
      [] OTHER                          -> NULL

\* datetime.strptime(f + " " + h, "%d/%m/%Y %H:%M:%S")
strptime_slash(f, h) ==
    IF f = "01/01/2024" /\ h = "12:00:00"
    THEN Some(<<2024, 1, 1, 12, 0, 0>>) ELSE NULL

\* the other formats with a separator, and the last resort pd.to_datetime(...,
\* errors="coerce"): none of them reads a text of FECHA EVENTO that the first
\* two do not read
strptime_others(f, h) == NULL

\* _parse_fecha_hora of movistar.py: no step of it looks at the year
parse_fecha_hora_mov(fecha_raw, hora_raw) ==
    IF fecha_raw = NULL \/ hora_raw = NULL THEN NULL
    ELSE LET f == strip(fecha_raw[1])
             h == strip(hora_raw[1])
         IN  IF strptime_compact(f, h) # NULL THEN strptime_compact(f, h)
             ELSE IF strptime_slash(f, h) # NULL THEN strptime_slash(f, h)
             ELSE strptime_others(f, h)

\* the match of _DMS of movistar.py and the value computed from its groups
dms_mov(s) ==
    IF s = "19 25'42 N" THEN Some("19.428333333333335") ELSE NULL

\* _to_decimal of movistar.py
to_decimal_mov(coord) ==
    IF coord = NULL \/ strip(coord[1]) = "" THEN NULL
    ELSE IF py_float(strip(coord[1])) # NULL THEN py_float(strip(coord[1]))
    ELSE dms_mov(strip(coord[1]))

Ninguno == 8

\* _map_tipo_registro; the sheets drawn have no column TIPO EVENTO
map_tipo_registro(tipo_cdr, tipo_evento) ==
    LET c == IF tipo_cdr = NULL THEN "" ELSE strip_upper(tipo_cdr[1])
        e == IF tipo_evento = NULL THEN "" ELSE strip_upper(tipo_evento[1])
    IN  CASE c = "GSM" /\ e = "ENTRANTE" -> 4
          [] c = "GSM" /\ e = "SALIENTE" -> 5
          [] c = "SMS" /\ e = "ENTRANTE" -> 2
          [] c = "SMS" /\ e = "SALIENTE" -> 3
          [] OTHER                       -> Ninguno

\* ------------------------------------------------- _normalize_rows, Movistar
\* a < b for two datetimes <<year, month, day, hour, minute, second>>
dt_lt(a, b) ==
    \E k \in 1 .. 6 : a[k] < b[k] /\ \A j \in 1 .. k - 1 : a[j] = b[j]

\* rank of a text of digits in the order of Python's str: a < b iff
\* orden_texto(a) < orden_texto(b)
orden_texto(s) ==
    CASE s = "5511111111" -> 1
      [] s = "5512345678" -> 2
      [] s = "5522222222" -> 3
      [] s = "5533333333" -> 4
      [] s = "5598765432" -> 5

\* the sequence s in the order Before, rows that tie in the order they have
\* in s (a stable sort)
StableSort(s, Before(_, _)) ==
    LET n == Len(s)
        rank(i) == 1 + Cardinality({j \in 1 .. n :
                          /\ j # i
                          /\ \/ Before(s[j], s[i])
                             \/ ~Before(s[i], s[j]) /\ j < i})
    IN  [k \in 1 .. n |-> s[CHOOSE i \in 1 .. n : rank(i) = k]]

\* sort_values("duracion_s", ascending=False).groupby(key).head(1): of the
\* rows with one key the first in descending order of the duration is kept
dedup_max_duracion(s, Key(_)) ==
    LET sorted == StableSort(s, LAMBDA x, y : x.duracion_s > y.duracion_s)
        idx    == SelectSeq([i \in 1 .. Len(sorted) |-> i],
                            LAMBDA i : \A j \in 1 .. i - 1 :
                                          Key(sorted[j]) # Key(sorted[i]))
    IN  [k \in 1 .. Len(idx) |-> sorted[idx[k]]]

\* the columns _normalize_rows adds to a row of the block
mov_casts(r) ==
    [tipo_cdr         |-> r.tipo_cdr,
     numero_a_clean   |-> clean_msisdn_mov(r.numero_a),
     numero_b_clean   |-> clean_msisdn_mov(r.numero_b),
     imei_clean       |-> clean_imei_mov(r.imei),
     fecha_hora       |-> parse_fecha_hora_mov(r.fecha_evento, r.hora_evento),
     duracion_s       |-> parse_duration_to_seconds(r.duracion),
     lat_dec          |-> to_decimal_mov(r.latitud),
     lon_dec          |-> to_decimal_mov(r.longitud),
     id_tipo_registro |-> map_tipo_registro(r.tipo_cdr, NULL)]

is_gsm(r) == r.tipo_cdr # NULL /\ strip_upper(r.tipo_cdr[1]) = "GSM"

\* mutant: the filter without the rule on the imei of GSM rows
mov_filter_sin_imei(r) ==
    /\ r.numero_a_clean # NULL
    /\ r.fecha_hora # NULL

\* the three rules of discard: numero_a, fecha_hora, imei of a GSM row
mov_filter(r) ==
    /\ r.numero_a_clean # NULL
    /\ r.fecha_hora # NULL
    /\ ~is_gsm(r) \/ r.imei_clean # NULL

has_coords(r) == r.lat_dec # NULL /\ r.lon_dec # NULL

\* ascending by fecha_hora, numero_a_clean, numero_b_clean, a missing
\* numero_b_clean last
mov_before(x, y) ==
    LET b_lt == x.numero_b_clean # NULL
                /\ (y.numero_b_clean = NULL
                    \/ orden_texto(x.numero_b_clean[1]) < orden_texto(y.numero_b_clean[1]))
        a_lt == orden_texto(x.numero_a_clean[1]) < orden_texto(y.numero_a_clean[1])
    IN  \/ dt_lt(x.fecha_hora[1], y.fecha_hora[1])
        \/ /\ x.fecha_hora = y.fecha_hora
           /\ \/ a_lt
              \/ x.numero_a_clean = y.numero_a_clean /\ b_lt

\* the dict built for a row of final; tipo_cdr is not part of it and is kept
\* to tell the GSM rows
mov_dict(r) ==
    [numero_a         |-> r.numero_a_clean,
     numero_b         |-> r.numero_b_clean,
     id_tipo_registro |-> r.id_tipo_registro,
     fecha_hora       |-> r.fecha_hora,
     duracion         |-> r.duracion_s,
     latitud_decimal  |-> r.lat_dec,
     longitud_decimal |-> r.lon_dec,
     imei             |-> r.imei_clean,
     telefono         |-> r.numero_a_clean,
     tipo_cdr         |-> r.tipo_cdr]

normalize_rows(df) ==
    LET cast    == [i \in 1 .. Len(df) |-> mov_casts(df[i])]
        kept    == SelectSeq(cast, mov_filter)
        with    == dedup_max_duracion(
                      SelectSeq(kept, has_coords),
                      LAMBDA r : <<r.numero_a_clean, r.fecha_hora, r.lat_dec, r.lon_dec>>)
        without == dedup_max_duracion(
                      SelectSeq(kept, LAMBDA r : ~has_coords(r)),
                      LAMBDA r : <<r.numero_a_clean, r.numero_b_clean, r.fecha_hora,
                                   r.id_tipo_registro>>)
        final   == StableSort(with \o without, mov_before)
    IN  [i \in 1 .. Len(final) |-> mov_dict(final[i])]

\* all_rows.extend(rows) for every frame, in the order of the frames
RECURSIVE extend_all(_)
extend_all(lists) ==
    IF lists = <<>> THEN <<>> ELSE Head(lists) \o extend_all(Tail(lists))

\* the rows of registros_telefonicos for the dicts of a parser: the id of the
\* file, numero_a and the year of fecha_hora
db_rows(id, dicts) ==
    [i \in 1 .. Len(dicts) |->
        [id_sabanas |-> id,
         numero_a   |-> IF dicts[i].numero_a = NULL THEN "" ELSE dicts[i].numero_a[1],
         fecha_hora |-> IF dicts[i].fecha_hora = NULL THEN NULL
                        ELSE Some(dicts[i].fecha_hora[1][1])]]

\* the file the parsers are run for
IdSabanas == 1

\* the sheets handed to run_movistar_etl
MaxSheetRows == 4

\* the sequences of at most n elements of S
SeqsOf(S, n) == UNION {[1 .. k -> S] : k \in 0 .. n}

MovSheets ==
    {<<hdr, r>> : hdr \in {MovHeader, MovHeaderSucio}, r \in MovWide}
    \cup {<<MovHeader, r>> : r \in MovDur}
    \cup SeqsOf(MovNarrow \cup {MovHeader, MovTitulo}, MaxSheetRows)

\* run_movistar_etl for a workbook of one sheet: the frames, the rows of
\* every frame one after the other, the delete and the bulk insert; it
\* returns the number of rows, or -1 when the insert raises
RunMovistar ==
    /\ salida = NoOutput
    /\ entrada \in MovSheets
    /\ \E frames \in {read_all_sheets_mov(entrada)} :
       \E all_rows \in {extend_all([j \in 1 .. Len(frames) |-> normalize_rows(frames[j])])} :
       \E cut \in {cut_points_mov(entrada)} :
       LET borrado  == delete_registros_telefonicos_by_archivo(registros, IdSabanas)
       IN  /\ salida' = [parser |-> "movistar", frames |-> frames, rows |-> all_rows,
                         cortes |-> [j \in 1 .. Len(cut) - 1 |-> <<cut[j], cut[j + 1]>>],
                         ret |-> IF insert_raises(db_rows(IdSabanas, all_rows))
                                 THEN 0 - 1 ELSE Len(all_rows)]
           /\ registros' = insert_registros_telefonicos_bulk(
                               borrado, db_rows(IdSabanas, all_rows))
    /\ UNCHANGED <<archivos, clock, pc, arg, local, rows, signal, resp,
                   accepted, ran, wins, termWrites, scratch, entrada>>

\* ---------------------------------------------------------- sheets of Telcel
\* a sheet is the sequence of its rows, a row the tuple of the texts of its
\* cells; no cell of the sheets below is empty, so dropna(axis=1, how="all")
\* drops no column of a table
TelCols == <<"Tipo", "Numero A", "Numero B", "Fecha", "Hora", "Durac. Seg.",
             "IMEI", "LATITUD", "LONGITUD", "Azimuth">>

TelHeader == TelCols

\* a title row: four of the expected names
TelTitulo == <<"Tipo", "Numero A", "N/D", "Fecha", "Hora", "N/D", "N/D", "N/D",
               "N/D", "N/D">>

EXPECTED_HEADER_TOKENS ==
    {"telefono", "teléfono", "tipo", "numero a", "número a", "numero b",
     "número b", "fecha", "hora", "durac", "durac seg", "durac. seg.",
     "duración", "imei", "latitud", "longitud", "azimuth"}

\* _norm: accents removed, lower case, "." and "_" replaced by a space, runs
\* of spaces collapsed
norm(s) ==
    CASE s = "Tipo"            -> "tipo"
      [] s = "Numero A"        -> "numero a"
      [] s = "Numero B"        -> "numero b"
      [] s = "Fecha"           -> "fecha"
      [] s = "Hora"            -> "hora"
      [] s = "Durac. Seg."     -> "durac seg"
      [] s = "IMEI"            -> "imei"
      [] s = "LATITUD"         -> "latitud"
      [] s = "LONGITUD"        -> "longitud"
      [] s = "Azimuth"         -> "azimuth"
      [] s = "N/D"             -> "n/d"
      [] s = "S/N"             -> "s/n"
      [] s = "VOZ SALIENTE"    -> "voz saliente"
      [] s = "19.43"           -> "19 43"
      [] s = "-99.13"          -> "-99 13"
      [] OTHER                 -> s

\* e in t, for an expected name e and a normalized cell t
contiene(e, t) == e = t \/ (e = "durac" /\ t = "durac seg")

\* _score_header_row: the expected names found inside a cell of the row
score_header_row(values) ==
    LET toks == {norm(values[i]) : i \in 1 .. Len(values)}
    IN  Cardinality({e \in EXPECTED_HEADER_TOKENS : \E t \in toks : contiene(e, t)})

\* CANON_COLS_MAP in the order of its keys
CANON_COLS_MAP ==
    <<<<"telefono", "telefono">>, <<"teléfono", "telefono">>, <<"tipo", "tipo">>,
      <<"numero a", "numero_a">>, <<"número a", "numero_a">>,
      <<"numero b", "numero_b">>, <<"número b", "numero_b">>,
      <<"fecha", "fecha">>, <<"hora", "hora">>, <<"durac", "durac_seg">>,
      <<"durac seg", "durac_seg">>, <<"durac. seg", "durac_seg">>,
      <<"duración", "durac_seg">>, <<"imei", "imei">>, <<"latitud", "latitud">>,
      <<"longitud", "longitud">>, <<"azimuth", "azimuth">>>>

\* n.startswith(key), for a normalized cell n
startswith(n, key) == n = key \/ (n = "durac seg" /\ key = "durac")

\* n.replace(" ", "_")
underscored(n) ==
    CASE n = "voz saliente" -> "voz_saliente"
      [] n = "19 43"        -> "19_43"
      [] n = "-99 13"       -> "-99_13"
      [] OTHER              -> n

\* _canon_name: the target of the first key the normalized name starts with
RECURSIVE canon_from(_, _)
canon_from(n, k) ==
    IF k > Len(CANON_COLS_MAP) THEN underscored(n)
    ELSE IF startswith(n, CANON_COLS_MAP[k][1]) THEN CANON_COLS_MAP[k][2]
    ELSE canon_from(n, k + 1)

canon_name(raw) == canon_from(norm(raw), 1)

\* the rows _find_table_in_sheet scans at most
MaxScanTelcel == 600

\* the score a row must reach to end the scan, and the score the best row
\* must reach to be the header of the table
TelBreak == 6
TelThreshold == 5

\* the loop of _find_table_in_sheet from row i on: the index and the score of
\* the best row so far; the scan ends at the first row whose score reaches
\* TelBreak
RECURSIVE best_header(_, _, _, _)
best_header(df_raw, i, best_idx, best_score) ==
    IF i > Len(df_raw) \/ i > MaxScanTelcel THEN <<best_idx, best_score>>
    ELSE LET score == score_header_row(df_raw[i])
             idx   == IF score > best_score THEN i ELSE best_idx
             best  == IF score > best_score THEN score ELSE best_score
         IN  IF score >= TelBreak THEN <<idx, best>>
             ELSE best_header(df_raw, i + 1, idx, best)

\* index of the first column of canon_headers whose name is name, or 0
RECURSIVE tel_index(_, _, _)
tel_index(hdr, name, i) ==
    IF i > Len(hdr) THEN 0
    ELSE IF hdr[i] = name THEN i
    ELSE tel_index(hdr, name, i + 1)

\* tbl.get(name).iloc[i] after the strip of the texts; the headers of the
\* sheets drawn name every column the row builder reads
tel_cell(hdr, row, name) == strip(row[tel_index(hdr, name, 1)])

\* a row of the table, by the canonical names hdr of its header
tel_row_of(hdr, row) ==
    [tipo      |-> tel_cell(hdr, row, "tipo"),
     numero_a  |-> tel_cell(hdr, row, "numero_a"),
     numero_b  |-> tel_cell(hdr, row, "numero_b"),
     fecha     |-> tel_cell(hdr, row, "fecha"),
     hora      |-> tel_cell(hdr, row, "hora"),
     durac_seg |-> tel_cell(hdr, row, "durac_seg"),
     imei      |-> tel_cell(hdr, row, "imei"),
     latitud   |-> tel_cell(hdr, row, "latitud"),
     longitud  |-> tel_cell(hdr, row, "longitud"),
     azimuth   |-> tel_cell(hdr, row, "azimuth")]

\* the header row of the table of a sheet, or 0 when no row reaches the
\* threshold
find_header_telcel(df_raw) ==
    LET b == best_header(df_raw, 1, 0, 0 - 1)
    IN  IF b[1] = 0 \/ b[2] < TelThreshold THEN 0 ELSE b[1]

\* _find_table_in_sheet: the one table of a sheet, from the row after the
\* best header row to the end of the sheet; NULL when there is no header row
find_table_in_sheet(df_raw) ==
    LET h             == find_header_telcel(df_raw)
        raw_headers   == df_raw[h]
        canon_headers == ListOf([c \in 1 .. Len(raw_headers) |->
                                    canon_name(raw_headers[c])])
    IN  IF h = 0 THEN NULL
        ELSE Some(ListOf([k \in 1 .. Len(df_raw) - h |->
                             tel_row_of(canon_headers, df_raw[h + k])]))

\* _load_all_sheets for a workbook of one sheet: the table, when it has rows
load_all_sheets(df_raw) ==
    LET tbl == find_table_in_sheet(df_raw)
    IN  IF tbl # NULL /\ Len(tbl[1]) > 0 THEN <<tbl[1]>> ELSE <<>>

\* the fecha column as _parse_fecha_hora prepares it: "." and "/" replaced
\* by "-", lower case
fecha_norm(f) ==
    CASE f = "N/D"   -> "n-d"
      [] f = "Fecha" -> "fecha"
      [] OTHER       -> f

\* pd.to_datetime(combo, format="%Y-%m-%d %H:%M:%S", errors="coerce") of one
\* text
to_datetime_iso(f, h) ==
    CASE f = "2024-05-01" /\ h = "10:00:00" -> "2024-05-01 10:00:00"
      [] f = "2024-05-02" /\ h = "10:00:00" -> "2024-05-02 10:00:00"
      [] f = "2099-01-01" /\ h = "10:00:00" -> "2099-01-01 10:00:00"
      [] OTHER                               -> NaT

\* the year of a Timestamp
year_of(ts) ==
    CASE ts = "2099-01-01 10:00:00" -> 2099
      [] OTHER                      -> 2024

\* _parse_fecha_hora of telcel_v1.py for the columns fecha and hora of a
\* table. No text of the sheets drawn has the form of the two patterns read
\* by hand, and the five other formats parse none of them. The first format
\* is taken when it parses a text and none of the dates it gives is after
\* next year; otherwise nothing is parsed and the final pass parses every
\* text on its own and keeps the dates that are not after next year.
parse_fecha_hora_telcel(tbl) ==
    LET cand   == ListOf([i \in 1 .. Len(tbl) |->
                             to_datetime_iso(fecha_norm(tbl[i].fecha), tbl[i].hora)])
        valid  == {i \in 1 .. Len(tbl) : cand[i] # NaT}
        future == {i \in valid : year_of(cand[i]) > CurrentYear + 1}
    IN  IF valid # {} /\ future = {} THEN cand
        ELSE [i \in 1 .. Len(tbl) |->
                 IF i \in valid \ future THEN cand[i] ELSE NaT]

\* str(x) of an imei cell, character by character
chars_of(s) ==
    CASE s = "333333333333333" -> Chars(15, "3")
      [] s = "S/N"             -> <<"S", "/", "N">>
      [] s = "N/D"             -> <<"N", "/", "D">>
      [] s = "IMEI"            -> <<"I", "M", "E", "I">>

\* _frame_to_rows for a table read from a sheet: the dates of the table, then
\* the loop over its rows and the filter
frame_to_rows_telcel(tbl) ==
    LET fecha_hora == ListOf(parse_fecha_hora_telcel(tbl))
    IN  frame_to_rows([i \in 1 .. Len(tbl) |->
                          [numero_a  |-> tbl[i].numero_a,
                           fa        |-> fecha_hora[i],
                           latitud   |-> tbl[i].latitud,
                           longitud  |-> tbl[i].longitud,
                           azimuth   |-> tbl[i].azimuth,
                           imei      |-> chars_of(tbl[i].imei),
                           durac_seg |-> tbl[i].durac_seg]])

\* the key of the duplicates of run_telcel_v1_etl
dedup_key(r) == <<r.numero_a, r.fecha_hora, r.latitud, r.longitud>>

\* mutant: the first row of a key is kept whatever the durations
dedup_put_primero(acc, r) ==
    IF \E k \in 1 .. Len(acc) : dedup_key(acc[k]) = dedup_key(r)
    THEN acc
    ELSE Append(acc, r)

\* one pass of the loop over all_rows: dedup_map, in the order of its keys,
\* after row r
dedup_put(acc, r) ==
    IF \E k \in 1 .. Len(acc) : dedup_key(acc[k]) = dedup_key(r)
    THEN LET k == CHOOSE k \in 1 .. Len(acc) : dedup_key(acc[k]) = dedup_key(r)
         IN  IF r.duracion > acc[k].duracion THEN [acc EXCEPT ![k] = r] ELSE acc
    ELSE Append(acc, r)

\* list(dedup_map.values()) after the loop over the rows from row i on
RECURSIVE dedup_telcel(_, _, _)
dedup_telcel(all_rows, i, acc) ==
    IF i > Len(all_rows) THEN acc
    ELSE dedup_telcel(all_rows, i + 1, dedup_put(acc, all_rows[i]))

\* the rows of registros_telefonicos for the dicts of the Telcel parser
db_rows_telcel(id, dicts) ==
    [i \in 1 .. Len(dicts) |->
        [id_sabanas |-> id,
         numero_a   |-> IF dicts[i].numero_a = NULL THEN "" ELSE dicts[i].numero_a[1],
         fecha_hora |-> IF dicts[i].fecha_hora = NULL THEN NULL
                        ELSE Some(year_of(dicts[i].fecha_hora[1]))]]

\* data rows that differ in the key of the duplicates and in the duration,
\* for sheets of several rows
TelNarrow ==
    {<<"VOZ SALIENTE", k[1], "5598765432", "2024-05-01", "10:00:00", k[2],
       "333333333333333", "19.43", "-99.13", "120">> :
        k \in {<<"5512345678", "10">>, <<"5512345678", "20">>,
                <<"5598765432", "10">>}}

\* data rows that differ in the other columns, for sheets of one data row
TelWide ==
    {<<"VOZ SALIENTE", "5512345678", "5598765432", f, "10:00:00", d, i,
       "19.43", "-99.13", az>> :
        f \in {"2024-05-01", "2099-01-01", "N/D"},
        d \in {"10", "-5", "1:30", "N/D"},
        i \in {"333333333333333", "S/N"},
        az \in {"120", "0"}}

\* the sheets handed to run_telcel_v1_etl
TelSheets ==
    {<<TelHeader, r>> : r \in TelWide}
    \cup SeqsOf(TelNarrow \cup {TelHeader, TelTitulo}, MaxSheetRows)

\* run_telcel_v1_etl for a workbook of one sheet: it returns 0 when no table
\* is found; otherwise the rows of the table, the duplicates removed, the
\* delete and the bulk insert of a list that is not empty; it returns the
\* number of rows, or -1 when the insert raises
RunTelcel ==
    /\ salida = NoOutput
    /\ entrada \in TelSheets
    /\ \E frames \in {load_all_sheets(entrada)} :
       \E antes \in {extend_all([j \in 1 .. Len(frames) |->
                                      frame_to_rows_telcel(frames[j])])} :
       \E all_rows \in {dedup_telcel(antes, 1, <<>>)} :
       \E h \in {find_header_telcel(entrada)} :
       LET cortes   == IF h = 0 THEN <<>> ELSE <<<<h, Len(entrada) + 1>>>>
           borrado  == delete_registros_telefonicos_by_archivo(registros, IdSabanas)
       IN  IF frames = <<>>
           THEN /\ salida' = [parser |-> "telcel", cortes |-> cortes, antes |-> <<>>,
                              rows |-> <<>>, ret |-> 0]
                /\ registros' = registros
           ELSE /\ salida' = [parser |-> "telcel",
                              cortes |-> cortes,
                              antes |-> antes, rows |-> all_rows,
                              ret |-> IF insert_raises(db_rows_telcel(IdSabanas, all_rows))
                                      THEN 0 - 1 ELSE Len(all_rows)]
                /\ registros' = IF all_rows = <<>> THEN borrado
                                ELSE insert_registros_telefonicos_bulk(
                                         borrado, db_rows_telcel(IdSabanas, all_rows))
    /\ UNCHANGED <<archivos, clock, pc, arg, local, rows, signal, resp,
                   accepted, ran, wins, termWrites, scratch, entrada>>

\* ----------------------------------------------------------- sheets of Altán
AltCols == <<"TIPO DE COMUNICACIÓN", "NÚMERO ORIGEN", "NÚMERO DESTINO",
             "DURACIÓN", "FECHA DE LA COMUNICACIÓN", "HORA DE LA COMUNICACIÓN",
             "LATITUD", "LONGITUD", "IMEI">>

AltHeader == AltCols

ALTAN_EXPECTED_TOKENS ==
    {"TIPO DE COMUNICACIÓN", "NÚMERO ORIGEN", "NÚMERO DESTINO", "DURACIÓN",
     "FECHA DE LA COMUNICACIÓN", "HORA DE LA COMUNICACIÓN",
     "ETIQUETA DE LOCALIZACIÓN", "LATITUD", "LONGITUD", "IMEI", "IMSI"}

AltThreshold == 5

\* score of _find_header_rows of altan.py for one row
header_score_alt(row) ==
    Cardinality(ALTAN_EXPECTED_TOKENS
                  \cap {normalize_colname(row[i]) : i \in 1 .. Len(row)})

\* _find_header_rows of altan.py
find_header_rows_alt(df) ==
    SelectSeq([i \in 1 .. Len(df) |-> i],
              LAMBDA i : header_score_alt(df[i]) >= AltThreshold)

\* a row of a block of altan.py, by the names of the header of the block
block_row_alt(hdr, row) ==
    [tipo     |-> cell_of(hdr, row, "TIPO DE COMUNICACIÓN"),
     origen   |-> cell_of(hdr, row, "NÚMERO ORIGEN"),
     destino  |-> cell_of(hdr, row, "NÚMERO DESTINO"),
     duracion |-> cell_of(hdr, row, "DURACIÓN"),
     fecha    |-> cell_of(hdr, row, "FECHA DE LA COMUNICACIÓN"),
     hora     |-> cell_of(hdr, row, "HORA DE LA COMUNICACIÓN"),
     latitud  |-> cell_of(hdr, row, "LATITUD"),
     longitud |-> cell_of(hdr, row, "LONGITUD"),
     imei     |-> cell_of(hdr, row, "IMEI")]

\* _row_is_header_like
row_is_header_like(r) ==
    r.tipo # NULL /\ strip_upper(r.tipo[1]) = "TIPO DE COMUNICACIÓN"

\* the block between the header row at index start and index stop
block_alt(df, start, stop) ==
    SelectSeq(SelectSeq([k \in 1 .. stop - start - 1 |->
                            block_row_alt(header_values(df[start]), df[start + k])],
                        not_all_na),
              LAMBDA r : ~row_is_header_like(r))

\* _read_all_sheets of altan.py for one sheet: one frame per header row,
\* empty blocks left out
read_all_sheets_alt(df) ==
    LET hs  == find_header_rows_alt(df)
        cut == hs \o <<Len(df) + 1>>
    IN  SelectSeq([j \in 1 .. Len(hs) |-> block_alt(df, cut[j], cut[j + 1])],
                  LAMBDA b : b # <<>>)

\* d[-10:] of a text of more than ten digits
last10(d) == IF d = "525511111111" THEN "5511111111" ELSE d

\* _clean_msisdn of altan.py: the last ten digits of a longer number
clean_msisdn_alt(s) ==
    IF only_digits_mov(s) = NULL \/ is_all_zeros(only_digits_mov(s)[1]) THEN NULL
    ELSE IF len_digits(only_digits_mov(s)[1]) > 10
         THEN Some(last10(only_digits_mov(s)[1]))
         ELSE only_digits_mov(s)

\* h after "if h.isdigit(): h = _pad_left(int(h), 6)"
pad_hora(h) == IF h = "90000" THEN "090000" ELSE h

\* _parse_fecha_hora of altan.py: the formats with "/" first, then the
\* compact one for a fecha of digits; no step of it looks at the year
parse_fecha_hora_alt(fecha_raw, hora_raw) ==
    IF fecha_raw = NULL \/ hora_raw = NULL THEN NULL
    ELSE LET f == strip(fecha_raw[1])
             h == pad_hora(strip(hora_raw[1]))
         IN  IF strptime_slash(f, h) # NULL THEN strptime_slash(f, h)
             ELSE IF strptime_compact(f, h) # NULL THEN strptime_compact(f, h)
             ELSE strptime_others(f, h)

\* the match of _DMS of altan.py on a text in lower case and the value
\* computed from its groups
dms_alt(s) ==
    IF s = "19 25'42 n" THEN Some("19.428333333333335") ELSE NULL

\* _to_decimal of altan.py: the texts of no value first, then float, then
\* the sexagesimal form; a float that is NaN is no value
to_decimal_alt(coord) ==
    IF coord = NULL THEN NULL
    ELSE LET s == lower(strip(coord[1]))
         IN  IF s \in {"", "nan", "none", "null", "na", "n/a"} THEN NULL
             ELSE IF py_float(s) # NULL
                  THEN (IF py_float(s) = Some(NaN) THEN NULL ELSE py_float(s))
             ELSE dms_alt(s)

\* ALTAN_TIPOS.get((s or "").strip().upper(), "OTRO")
infer_provider_type(s) ==
    LET s2 == IF s = NULL THEN "" ELSE strip_upper(s[1])
    IN  CASE s2 = "VOZ"                               -> "VOZ"
          [] s2 = "DATOS"                             -> "DATOS"
          [] s2 = "SERVICIO DE MENSAJE CORTO"         -> "SMS"
          [] s2 = "SERVICIO SUPLEMENTARIO DE REENVIO" -> "REENVIO"
          [] OTHER                                    -> "OTRO"

\* _map_tipo_registro_altan, with the ids of CTG_TIPO_REGISTRO_IDS
map_tipo_registro_altan(tipo_com, dir_flag) ==
    LET t == infer_provider_type(tipo_com)
    IN  CASE t = "DATOS"                          -> 0
          [] t = "SMS" /\ dir_flag = "ENTRANTE"     -> 2
          [] t = "SMS" /\ dir_flag = "SALIENTE"     -> 3
          [] t = "REENVIO" /\ dir_flag = "ENTRANTE" -> 11
          [] t = "REENVIO" /\ dir_flag = "SALIENTE" -> 10
          [] t = "VOZ" /\ dir_flag = "ENTRANTE"     -> 4
          [] t = "VOZ" /\ dir_flag = "SALIENTE"     -> 5
          [] OTHER                                  -> Ninguno

\* a.mode().iloc[0]: of the values met most often, the first in the order of
\* the texts; NULL for no value at all
mode_of(vals) ==
    LET count(v) == Cardinality({i \in 1 .. Len(vals) : vals[i] = v})
        most     == {vals[i] : i \in {i \in 1 .. Len(vals) :
                        \A j \in 1 .. Len(vals) : count(vals[j]) <= count(vals[i])}}
    IN  IF vals = <<>> THEN NULL
        ELSE Some(CHOOSE v \in most :
                      \A w \in most : orden_texto(v) <= orden_texto(w))

\* the cleaned NÚMERO ORIGEN of the rows of df that have one
origenes(df) ==
    LET limpios == [i \in 1 .. Len(df) |-> clean_msisdn_alt(df[i].origen)]
        con     == SelectSeq(limpios, LAMBDA a : a # NULL)
    IN  [i \in 1 .. Len(con) |-> con[i][1]]

\* _estimate_subscriber: the mode of the cleaned NÚMERO ORIGEN of the frame
\* it is handed
estimate_subscriber(df) == mode_of(origenes(df))

\* _infer_direction
infer_direction(r, abonado) ==
    LET a == clean_msisdn_alt(r.origen)
        b == clean_msisdn_alt(r.destino)
    IN  IF abonado = NULL THEN ""
        ELSE IF a = abonado /\ (b = NULL \/ b # abonado) THEN "SALIENTE"
        ELSE IF b = abonado /\ (a = NULL \/ a # abonado) THEN "ENTRANTE"
        ELSE ""

\* the columns _normalize_block adds to a row of the block
alt_casts(r, abonado) ==
    [tipo             |-> r.tipo,
     abonado          |-> abonado,
     numero_a_clean   |-> clean_msisdn_alt(r.origen),
     numero_b_clean   |-> clean_msisdn_alt(r.destino),
     imei_clean       |-> clean_imei_mov(r.imei),
     fecha_hora       |-> parse_fecha_hora_alt(r.fecha, r.hora),
     duracion_s       |-> parse_duration_to_seconds(r.duracion),
     lat_dec          |-> to_decimal_alt(r.latitud),
     lon_dec          |-> to_decimal_alt(r.longitud),
     id_tipo_registro |-> map_tipo_registro_altan(r.tipo, infer_direction(r, abonado))]

is_voz_row(r) == r.tipo # NULL /\ strip_upper(r.tipo[1]) = "VOZ"

\* the three rules of discard of altan.py: NÚMERO ORIGEN, both coordinates,
\* imei of a VOZ row
alt_filter(r) ==
    /\ r.numero_a_clean # NULL
    /\ r.lat_dec # NULL /\ r.lon_dec # NULL
    /\ ~is_voz_row(r) \/ r.imei_clean # NULL

\* ascending by fecha_hora, numero_a_clean, numero_b_clean, a missing value
\* last
alt_before(x, y) ==
    LET b_lt == x.numero_b_clean # NULL
                /\ (y.numero_b_clean = NULL
                    \/ orden_texto(x.numero_b_clean[1]) < orden_texto(y.numero_b_clean[1]))
        a_lt == orden_texto(x.numero_a_clean[1]) < orden_texto(y.numero_a_clean[1])
        f_lt == x.fecha_hora # NULL
                /\ (y.fecha_hora = NULL \/ dt_lt(x.fecha_hora[1], y.fecha_hora[1]))
    IN  \/ f_lt
        \/ /\ x.fecha_hora = y.fecha_hora
           /\ \/ a_lt
              \/ x.numero_a_clean = y.numero_a_clean /\ b_lt

\* the dict built for a row; tipo and abonado are not part of it and are
\* kept to tell the VOZ rows and the subscriber the direction was taken from
alt_dict(r) ==
    [numero_a         |-> r.numero_a_clean,
     numero_b         |-> r.numero_b_clean,
     id_tipo_registro |-> r.id_tipo_registro,
     fecha_hora       |-> r.fecha_hora,
     duracion         |-> r.duracion_s,
     latitud_decimal  |-> r.lat_dec,
     longitud_decimal |-> r.lon_dec,
     imei             |-> r.imei_clean,
     telefono         |-> r.numero_a_clean,
     tipo             |-> r.tipo,
     abonado          |-> r.abonado]

\* _normalize_block: the subscriber of the block, the casts, the filters, the
\* duplicates and the order
normalize_block(df_block) ==
    LET abonado == estimate_subscriber(df_block)
        cast    == [i \in 1 .. Len(df_block) |-> alt_casts(df_block[i], abonado)]
        kept    == SelectSeq(cast, alt_filter)
        dedup   == dedup_max_duracion(
                      kept,
                      LAMBDA r : <<r.numero_a_clean, r.numero_b_clean, r.id_tipo_registro,
                                   r.fecha_hora, r.lat_dec, r.lon_dec>>)
        final   == StableSort(dedup, alt_before)
    IN  [i \in 1 .. Len(final) |-> alt_dict(final[i])]

\* data rows that differ in origin and destination, for sheets of several
\* rows
AltNarrow ==
    {<<"VOZ", k[1], k[2], "10", "20240101", "120000", "19.43", "-99.13",
       "356938035643809">> :
        k \in {<<"5511111111", "5522222222">>, <<"5522222222", "5511111111">>,
                <<"5511111111", NaN>>}}

\* data rows that differ in the other columns, for sheets of one data row
AltWide ==
    {<<t, a, b, "10", f, "120000", la, "-99.13", i>> :
        t \in {"VOZ", "DATOS", "SERVICIO DE MENSAJE CORTO", NaN},
        a \in {"5511111111", "525511111111", NaN},
        b \in {"5522222222", "5511111111", NaN},
        f \in {"20240101", "N/D"},
        la \in {"19.43", NaN},
        i \in {"356938035643809", "S/N"}}

\* the sheets handed to run_altan_etl
AltSheets ==
    {<<AltHeader, r>> : r \in AltWide}
    \cup SeqsOf(AltNarrow \cup {AltHeader}, MaxSheetRows + 1)

\* run_altan_etl for a workbook of one sheet: the blocks, the rows of every
\* block one after the other, the delete and the bulk insert of a list that
\* is not empty; it returns the number of rows, or -1 when the insert raises
RunAltan ==
    /\ salida = NoOutput
    /\ entrada \in AltSheets
    /\ \E frames \in {read_all_sheets_alt(entrada)} :
       \E all_rows \in {extend_all([j \in 1 .. Len(frames) |-> normalize_block(frames[j])])} :
       LET borrado  == delete_registros_telefonicos_by_archivo(registros, IdSabanas)
       IN  /\ salida' = [parser |-> "altan", frames |-> frames, rows |-> all_rows,
                         ret |-> IF insert_raises(db_rows(IdSabanas, all_rows))
                                 THEN 0 - 1 ELSE Len(all_rows)]
           /\ registros' = IF all_rows = <<>> THEN borrado
                           ELSE insert_registros_telefonicos_bulk(
                                    borrado, db_rows(IdSabanas, all_rows))
    /\ UNCHANGED <<archivos, clock, pc, arg, local, rows, signal, resp,
                   accepted, ran, wins, termWrites, scratch, entrada>>

InitSheet ==
    /\ InitJobs
    /\ entrada \in MovSheets \cup TelSheets \cup AltSheets
    /\ salida = NoOutput

NextSheet ==
    \/ RunMovistar
    \/ RunTelcel
    \/ RunAltan

SheetSpec == InitSheet /\ [][NextSheet]_vars

TypeOK ==
    /\ \A f \in Files : archivos[f].estado \in Estados
    /\ resp.status \in Status \cup {0}
    /\ \A i \in Ids : accepted[i] \in 0 .. NumProcs

\* ------------------------------------------------------------------ claims
EtlPcs == {"download", "t_delete", "t_insert", "g_delete", "g_insert",
           "mark_error", "mark_done"}

Allowed == {<<"subido", "en_cola">>, <<"en_cola", "procesando">>,
            <<"procesando", "procesado">>, <<"procesando", "error">>}

\* C1: whatever the interleaving of requests and workers, every change of a
\* file's estado is one of subido->en_cola, en_cola->procesando,
\* procesando->procesado, procesando->error; nothing leaves procesado or
\* error and nothing enters error from subido or en_cola.
C1_StatePath ==
    [][\A f \in Files :
          archivos'[f].estado # archivos[f].estado
              => <<archivos[f].estado, archivos'[f].estado>> \in Allowed]_vars

C1_Witness ==
    \E f \in Nuevos :
        /\ archivos[f].estado = "error"
        /\ archivos[f].fecha_inicio # NULL
        /\ archivos[Antiguo].estado = "procesado"

\* the conditional transition each position of the code asks for
CasOf(l) ==
    CASE l = "accept_cas"  -> <<"subido", "en_cola">>
      [] l = "process_cas" -> <<"en_cola", "procesando">>
      [] l = "mark_done"   -> <<"procesando", "procesado">>

\* C2: a try_mark_estado(id, expected, next) call observes true exactly when
\* the stored estado equals expected at the update, and then stores next;
\* otherwise it leaves the row unchanged; per (id, expected) at most one
\* caller ever observes true.
C2_CompareAndSet ==
    [][\A p \in Procs :
          (pc[p] \in {"accept_cas", "process_cas", "mark_done"} /\ pc'[p] # pc[p])
          => LET id  == arg[p]
                 k   == <<id, CasOf(pc[p])[1]>>
                 won == wins'[k] = wins[k] + 1
             IN  /\ won <=> archivos[id].estado = CasOf(pc[p])[1]
                 /\ won => archivos'[id].estado = CasOf(pc[p])[2]
                 /\ ~won => archivos' = archivos /\ wins' = wins
                 /\ wins'[k] <= 1]_vars

C2_Witness ==
    \E f \in Nuevos :
        /\ ran[f]["cas_false"] >= 1
        /\ wins[<<f, "en_cola">>] = 1

\* C3: of the AcceptJob calls on a file that starts in subido, concurrent or
\* one after the other, exactly one is answered 202 and every other one 409.
C3_OneAccepted ==
    \A f \in Nuevos :
        LET inflight == {p \in Procs : arg[p] = f /\ pc[p] \in {"accept_get", "accept_cas"}}
        IN  /\ accepted[f] <= 1
            /\ (resp.id = f /\ resp.status # 401)
                  => /\ resp.status \in {202, 409}
                     /\ inflight = {} => accepted[f] = 1

C3_Witness ==
    \E f \in Nuevos :
        /\ accepted[f] = 1
        /\ resp = [id |-> f, status |-> 409, detail |-> "cambio"]

\* C4: for each file at most one process_job_sabana gets past
\* en_cola->procesando, so at most one worker ever downloads it or deletes
\* and inserts its rows, at the same time or one after the other.
C4_SingleOwner ==
    \A f \in Files :
        /\ wins[<<f, "en_cola">>] <= 1
        /\ Cardinality({p \in Procs : arg[p] = f /\ pc[p] \in EtlPcs}) <= 1
        /\ ran[f]["download"] <= 1
        /\ ran[f]["insert"] <= ran[f]["download"]
        /\ ran[f]["delete"] <= 2 * ran[f]["download"]

C4_Witness ==
    \E f \in Nuevos :
        /\ ran[f]["insert"] >= 1
        /\ ran[f]["cas_false"] >= 1

PriorKept(id) ==
    \A i \in 1 .. Len(prior) :
        prior[i].id_sabanas = id
            => \E j \in 1 .. Len(registros) : registros[j] = prior[i]

\* C6: delete and bulk insert are one transaction: when the bulk insert (or
\* its validation) fails, the rows stored for the file before the run are
\* still present.
C6_DeleteRolledBack ==
    \A p \in Procs : "insert" \in signal[p] => PriorKept(arg[p])

\* C7: a parser that produces 0 rows without raising makes the run a
\* success: the worker does not go on to mark the file error.
C7_ZeroRowsProcessed ==
    \A p \in Procs :
        ("cero" \in signal[p] /\ "raised" \notin signal[p])
        => pc[p] # "mark_error"

\* C8: when a Telcel row has a year beyond CurrentYear+1 the batch insert
\* fails, the worker never goes on to mark the file procesado, and no row
\* is inserted for the file.
C8_FutureYearFails ==
    \A p \in Procs :
        "telcel_rango" \in signal[p]
            => /\ pc[p] # "mark_done"
               /\ ran[arg[p]]["insert"] = 0

\* C9: fecha_inicio is written exactly by the transition into procesando and
\* fecha_termino exactly by the transition into procesado or error:
\* fecha_inicio is set iff estado is procesando, procesado or error, and
\* fecha_termino is set iff estado is procesado or error.
C9_Timestamps ==
    /\ [](\A f \in Files :
            /\ archivos[f].fecha_inicio # NULL
                 <=> archivos[f].estado \in {"procesando", "procesado", "error"}
            /\ archivos[f].fecha_termino # NULL
                 <=> archivos[f].estado \in Terminal)
    /\ [][\A f \in Files :
            /\ archivos'[f].fecha_inicio # archivos[f].fecha_inicio
                 => archivos[f].estado = "en_cola" /\ archivos'[f].estado = "procesando"
            /\ archivos'[f].fecha_termino # archivos[f].fecha_termino
                 => archivos[f].estado = "procesando" /\ archivos'[f].estado \in Terminal]_vars

C9_Witness ==
    \E f \in Nuevos :
        /\ archivos[f].estado = "procesando"
        /\ archivos[f].fecha_inicio # NULL
        /\ archivos[f].fecha_termino = NULL

\* C10: accept_job_sabana answers 404 when the id has no row and 409 with
\* the estado it read when that is not subido, and 409 when its conditional
\* update changes no row; in all three cases the row is left as it was.
C10_AcceptRejects ==
    [][\A p \in Procs :
          LET id == arg[p] IN
          /\ (pc[p] = "accept_get" /\ pc'[p] # pc[p])
             => IF id \notin DOMAIN archivos
                THEN /\ resp' = [id |-> id, status |-> 404, detail |-> ""]
                     /\ pc'[p] = "done" /\ archivos' = archivos
                ELSE IF archivos[id].estado # "subido"
                THEN /\ resp' = [id |-> id, status |-> 409,
                                 detail |-> archivos[id].estado]
                     /\ pc'[p] = "done" /\ archivos' = archivos
                ELSE resp' = resp /\ pc'[p] = "accept_cas"
          /\ (pc[p] = "accept_cas" /\ pc'[p] = "done")
             => /\ resp'.id = id /\ resp'.status = 409
                /\ archivos' = archivos]_vars

C10_Witness ==
    \E f \in Nuevos :
        /\ archivos[f].estado = "procesando"
        /\ resp = [id |-> f, status |-> 409, detail |-> "procesando"]

\* the operations of a worker that owns a file
OwnerOps == {"download", "delete", "insert"}

\* C11: process_job_sabana returns without an answer or an exception, and
\* leaves archivos (estado and timestamps) and registros as they are and
\* downloads nothing, whenever the row is missing, its estado is not en_cola,
\* or try_mark_estado(en_cola -> procesando) returns false.
C11_SilentReturn ==
    [][\A p \in Procs :
          LET id   == arg[p]
              row  == get_archivo_by_id(archivos, id)
              miss == row = NULL \/ row[1].estado # "en_cola"
              same == /\ archivos' = archivos
                      /\ registros' = registros
                      /\ resp' = resp
                      /\ \A f \in Files, o \in OwnerOps : ran'[f][o] = ran[f][o]
          IN  /\ (pc[p] = "process_get" /\ pc'[p] # pc[p])
                 => IF miss THEN pc'[p] = "done" /\ same
                            ELSE pc'[p] = "process_cas"
              /\ (pc[p] = "process_cas" /\ pc'[p] # pc[p])
                 => IF miss THEN pc'[p] = "done" /\ same
                            ELSE pc'[p] = "download"]_vars

C11_Witness ==
    \E f \in Nuevos :
        /\ ran[f]["skip"] + ran[f]["cas_false"] = 1
        /\ archivos[f].estado = "procesando"
        /\ archivos[f].fecha_termino = NULL
        /\ ran[f]["download"] = 0
        /\ registros = prior
        /\ \A p \in Procs : pc[p] \in {"done", "download"}

\* rows of the table stored for file id
RowsOf(tbl, id) == SelectSeq(tbl, LAMBDA r : r.id_sabanas = id)

\* the worker of file id whose os.makedirs / ftp_download raised
DownloadFailed(p) ==
    /\ pc[p] = "mark_error"
    /\ ran[arg[p]]["ftp_error"] = 1

\* C12: when os.makedirs or ftp_download fails, run_etl is not run and no
\* row of the file is deleted or inserted, and the worker's next step writes
\* estado error with fecha_termino set and returns.
C12_DownloadFailure ==
    /\ [](\A p \in Procs :
            DownloadFailed(p)
              => /\ signal[p] = {}
                 /\ ran[arg[p]]["delete"] = 0 /\ ran[arg[p]]["insert"] = 0
                 /\ RowsOf(registros, arg[p]) = RowsOf(prior, arg[p]))
    /\ [][\A p \in Procs :
            (DownloadFailed(p) /\ pc'[p] # pc[p])
              => /\ archivos'[arg[p]].estado = "error"
                 /\ archivos'[arg[p]].fecha_termino = Some(clock[arg[p]])
                 /\ registros' = registros
                 /\ pc'[p] = "done"]_vars

C12_Witness ==
    \E f \in Nuevos :
        /\ ran[f]["ftp_error"] = 1
        /\ archivos[f].estado = "error"
        /\ archivos[f].fecha_termino # NULL
        /\ RowsOf(registros, f) = RowsOf(prior, f)

\* C13: when the Telcel parser of run_etl raises, the worker does not go on
\* to mark the file procesado in that run.
C13_ParserErrorFails ==
    \A p \in Procs : "raised" \in signal[p] => pc[p] # "mark_done"

\* C14: insert_registros_telefonicos_bulk stores every row of the batch or
\* none: when a row of the batch has a year beyond CurrentYear+1 (or before
\* 1970) the call fails and the table is left as it was; otherwise the
\* table gains exactly the batch.
C14_AllOrNothing ==
    [][\A p \in Procs :
          (pc[p] \in {"t_insert", "g_insert"} /\ pc'[p] # pc[p])
            => /\ registros' = registros \/ registros' = registros \o rows[p]
               /\ insert_raises(rows[p])
                    => registros' = registros /\ pc'[p] # "mark_done"]_vars

C14_Witness ==
    \E p \in Procs :
        /\ "telcel_rango" \in signal[p]
        /\ pc[p] = "g_delete"
        /\ Len(rows[p]) = 2
        /\ \E i \in 1 .. 2 : ~fecha_fuera_de_rango(rows[p][i])
        /\ RowsOf(registros, arg[p]) = <<>>

\* C15: when a worker moves a file to procesado, the rows stored for the file
\* are exactly the rows its parser returned in that run, as many as it
\* returned, and no row stored for the file by an earlier run remains,
\* whatever was stored for the file before the run.
C15_ExactlyParsedRows ==
    [][\A p \in Procs :
          LET id == arg[p] IN
          (pc[p] = "mark_done" /\ pc'[p] # pc[p])
            => /\ archivos'[id].estado = "procesado"
               /\ RowsOf(registros', id) = rows[p]
               /\ Len(RowsOf(registros', id)) = Len(rows[p])
               /\ \A i \in 1 .. Len(registros') : registros'[i] # OldRow(id)]_vars

C15_Witness ==
    \E f \in Nuevos :
        /\ archivos[f].estado = "procesado"
        /\ RowsOf(prior, f) = <<OldRow(f)>>
        /\ RowsOf(registros, f) =
              <<[id_sabanas |-> f, numero_a |-> "A", fecha_hora |-> EnRango]>>

\* C16: once the worker of a file has been interrupted between the
\* transition to procesando and its terminal write, the file stays in
\* procesando: no later accept_job_sabana or process_job_sabana changes its
\* row, downloads it, or deletes or inserts its rows.
C16_InterruptedStays ==
    /\ [](\A f \in Files :
            ran[f]["interrupted"] >= 1
              => archivos[f].estado = "procesando" /\ ran[f]["interrupted"] = 1)
    /\ [][\A f \in Files :
            ran[f]["interrupted"] >= 1
              => /\ archivos'[f] = archivos[f]
                 /\ RowsOf(registros', f) = RowsOf(registros, f)
                 /\ \A o \in OwnerOps : ran'[f][o] = ran[f][o]]_vars

C16_Witness ==
    \E f \in Nuevos :
        /\ ran[f]["interrupted"] = 1
        /\ ran[f]["delete"] = 1
        /\ archivos[f].estado = "procesando"
        /\ resp = [id |-> f, status |-> 409, detail |-> "procesando"]
        /\ \A p \in Procs : pc[p] = "done"

\* C17: a directory LOCAL_TMP_DIR/<id_archivo> exists only while the worker
\* that made it is running: every exit of process_job_sabana releases it.
C17_ScratchReleased ==
    \A f \in Files :
        f \in scratch => \E p \in Procs : arg[p] = f /\ pc[p] \in EtlPcs

\* C18: POST /jobs/sabanas answers 202 only when accept_job_sabana moved the
\* file from subido to en_cola, and each 202 comes with exactly one
\* process_job_sabana scheduled for that id; a request answered 401, 404 or
\* 409 schedules no process_job_sabana and leaves archivos as it was.
C18_RouteSchedules ==
    [][/\ \A p \in Procs :
            LET id == arg[p] IN
            /\ (pc[p] = "idle" /\ pc'[p] = "done")
                 => resp'.status = 401 /\ archivos' = archivos /\ accepted' = accepted
            /\ (pc[p] \in {"accept_get", "accept_cas"} /\ pc'[p] = "done")
                 => /\ resp'.id = id /\ resp'.status \in {404, 409}
                    /\ archivos' = archivos /\ accepted' = accepted
            /\ (pc[p] \in {"accept_get", "accept_cas"} /\ pc'[p] = "process_get")
                 => /\ resp' = [id |-> id, status |-> 202, detail |-> ""]
                    /\ archivos[id].estado = "subido"
                    /\ archivos'[id].estado = "en_cola"
                    /\ accepted'[id] = accepted[id] + 1
       /\ \A i \in Ids :
            accepted'[i] # accepted[i]
              => Cardinality({p \in Procs : /\ arg[p] = i
                                            /\ pc[p] = "accept_cas"
                                            /\ pc'[p] = "process_get"}) = 1]_vars

C18_Witness ==
    \E f \in Nuevos, p \in Procs :
        /\ accepted[f] = 1
        /\ pc[p] = "process_get" /\ arg[p] = f
        /\ archivos[f].estado = "en_cola"
        /\ resp.status = 401

\* the carrier of the fixed table of the dispatcher
CarrierById(c) ==
    CASE c \in {1, 2, 3, 14} -> "TELCEL"
      [] c \in {4, 13}       -> "ATT"
      [] c = 5               -> "MOVISTAR"
      [] c = 12              -> "ALTAN"
      [] OTHER               -> "TELCEL"

\* C19: the parser a worker runs for a file is the one the fixed table gives
\* for the file's id_compania_telefonica ({1,2,3,14} TELCEL, {4,13} ATT,
\* {5} MOVISTAR, {12} ALTAN).
C19_DispatchByCarrier ==
    \A p \in Procs :
        signal[p] \cap {"telcel", "generic"} # {}
          => parser_of_run(signal[p]) = CarrierById(id_compania_telefonica[arg[p]])

\* C20: every row the Telcel row builder and every row the AT&T row builder
\* emits has a latitud_decimal and a longitud_decimal that are not null, an
\* azimuth that is not zero and an imei that is not null.
C20_EmittedRowsComplete ==
    \A i \in 1 .. Len(salida.rows) :
        /\ salida.rows[i].latitud_decimal # NULL
        /\ salida.rows[i].longitud_decimal # NULL
        /\ salida.rows[i].azimuth # Some("0.0")
        /\ salida.rows[i].imei # NULL

DmlPcs == {"t_delete", "t_insert", "g_delete", "g_insert"}

\* C29: an ETL run for file f deletes and inserts only rows whose id_sabanas
\* is f: a step changes the rows of a file only when it is a delete or insert
\* step of a run for that file, every row it adds to that file's rows carries
\* the file's id, and the rows of a file no run works on stay as they were,
\* whether the run ends in procesado or in error.
C29_OtherFilesUntouched ==
    /\ [](RowsOf(registros, Antiguo) = RowsOf(prior, Antiguo))
    /\ [][\A g \in Files :
            RowsOf(registros', g) # RowsOf(registros, g)
              => \E p \in Procs : arg[p] = g /\ pc[p] \in DmlPcs]_vars

C29_Witness ==
    /\ \E f \in Nuevos :
          /\ archivos[f].estado \in Terminal
          /\ ran[f]["delete"] > 0
          /\ ran[f]["insert"] > 0
          /\ RowsOf(registros, f) # RowsOf(prior, f)
    /\ RowsOf(registros, Antiguo) = RowsOf(prior, Antiguo)

\* the workers inside the ETL of file g
Running(g) == {p \in Procs : arg[p] = g /\ pc[p] \in EtlPcs}

\* C30: the rows of a file are deleted or inserted only while its estado is
\* procesando, and only by the worker whose own step took the file from
\* en_cola to procesando: a worker enters the ETL only in that step, at most
\* one worker is inside the ETL of a file, and while a file is subido,
\* en_cola, procesado or error no step changes its rows.
C30_OnlyOwnerWhileProcessing ==
    /\ [](\A g \in Files : Cardinality(Running(g)) <= 1)
    /\ [][\A p \in Procs :
            (pc'[p] \in EtlPcs /\ pc[p] \notin EtlPcs)
              => /\ pc[p] = "process_cas" /\ arg'[p] = arg[p]
                 /\ archivos[arg[p]].estado = "en_cola"
                 /\ archivos'[arg[p]].estado = "procesando"]_vars
    /\ [][\A p \in Procs :
            (pc[p] \in EtlPcs /\ pc'[p] \in EtlPcs) => arg'[p] = arg[p]]_vars
    /\ [][\A g \in Files :
            RowsOf(registros', g) # RowsOf(registros, g)
              => /\ archivos[g].estado = "procesando"
                 /\ archivos'[g].estado = "procesando"
                 /\ \E p \in Running(g) : pc[p] \in DmlPcs /\ pc'[p] # pc[p]]_vars

C30_Witness ==
    \E f \in Nuevos, p \in Procs :
        /\ archivos[f].estado = "procesando"
        /\ Running(f) = {p}
        /\ pc[p] \in {"t_insert", "g_insert"}
        /\ RowsOf(registros, f) = <<>>
        /\ \E q \in Procs : q # p /\ pc[q] = "done"

\* C21: every row a carrier parser produces has a numero_a that is not
\* empty, a fecha_hora that is not null and an imei that, when present, has
\* exactly 15 digits.
C21_RecordWellFormed ==
    \A i \in 1 .. Len(salida.rows) :
        /\ Truthy(salida.rows[i].numero_a)
        /\ salida.rows[i].fecha_hora # NULL
        /\ salida.rows[i].imei # NULL => Len(salida.rows[i].imei[1]) = 15

\* the dict comes from a row whose TIPO CDR is GSM
EsGsm(d) == d.tipo_cdr # NULL /\ strip_upper(d.tipo_cdr[1]) = "GSM"

\* C22: every row the Movistar parser emits has a fecha_hora and a numero_a
\* that are not null, and every emitted row whose TIPO CDR is GSM has an imei
\* that is not null.
C22_MovistarFilter ==
    salida.parser = "movistar"
      => \A i \in 1 .. Len(salida.rows) :
            /\ salida.rows[i].fecha_hora # NULL
            /\ salida.rows[i].numero_a # NULL
            /\ EsGsm(salida.rows[i]) => salida.rows[i].imei # NULL

\* two GSM rows are emitted, each with its imei
C22_Witness ==
    /\ salida.parser = "movistar"
    /\ Len(salida.rows) = 2
    /\ \A i \in 1 .. 2 : EsGsm(salida.rows[i]) /\ salida.rows[i].imei # NULL

\* C23: the date parser of a carrier rejects every input whose year is
\* greater than the current year plus one: no emitted row carries such a
\* fecha_hora.
C23_FutureYearRejected ==
    salida.parser = "movistar"
      => \A i \in 1 .. Len(salida.rows) :
            salida.rows[i].fecha_hora # NULL
              => salida.rows[i].fecha_hora[1][1] <= CurrentYear + 1

\* the dict x is after the dict y in the order of (fecha_hora, numero_a,
\* numero_b)
DictAfter(x, y) ==
    \/ dt_lt(y.fecha_hora[1], x.fecha_hora[1])
    \/ /\ x.fecha_hora = y.fecha_hora
       /\ \/ orden_texto(y.numero_a[1]) < orden_texto(x.numero_a[1])
          \/ /\ x.numero_a = y.numero_a
             /\ y.numero_b # NULL
             /\ (x.numero_b = NULL
                 \/ orden_texto(y.numero_b[1]) < orden_texto(x.numero_b[1]))

\* C25: the list of rows the Movistar parser emits for a file is in ascending
\* order of (fecha_hora, numero_a, numero_b): no row is followed by a row
\* that comes before it in that order.
C25_OutputAscending ==
    salida.parser = "movistar"
      => \A i, j \in 1 .. Len(salida.rows) :
            i < j => ~DictAfter(salida.rows[i], salida.rows[j])

\* C27: the duration of every emitted row is a non-negative integer, whatever
\* the text of the DURACION cell it was computed from.
C27_DurationNonNegative ==
    \A i \in 1 .. Len(salida.rows) : salida.rows[i].duracion >= 0

\* C24: in the rows the Telcel parser emits for a file no two rows share the
\* key (numero_a, fecha_hora, latitud, longitud), and every emitted row is
\* one of the rows that entered the duplicates step whose duracion is the
\* largest among the rows of its key.
C24_TelcelDedup ==
    (salida.parser = "telcel" /\ entrada \in TelSheets)
      => /\ \A i, j \in 1 .. Len(salida.rows) :
                i # j => dedup_key(salida.rows[i]) # dedup_key(salida.rows[j])
         /\ \A i \in 1 .. Len(salida.rows) :
                /\ \E k \in 1 .. Len(salida.antes) : salida.antes[k] = salida.rows[i]
                /\ \A k \in 1 .. Len(salida.antes) :
                       dedup_key(salida.antes[k]) = dedup_key(salida.rows[i])
                         => salida.antes[k].duracion <= salida.rows[i].duracion

\* two rows of one key entered the duplicates step, the longer one after the
\* shorter one, and one row of that key was emitted
C24_Witness ==
    /\ salida.parser = "telcel"
    /\ entrada \in TelSheets
    /\ \E k, l \in 1 .. Len(salida.antes) :
          /\ k < l
          /\ dedup_key(salida.antes[k]) = dedup_key(salida.antes[l])
          /\ salida.antes[k].duracion < salida.antes[l].duracion
    /\ Len(salida.rows) < Len(salida.antes)

\* the rows of the sheet whose header score reaches the threshold of the
\* parser that read it
HeaderRows ==
    {i \in 1 .. Len(entrada) :
        IF salida.parser = "telcel"
        THEN score_header_row(entrada[i]) >= TelThreshold
        ELSE header_score_mov(entrada[i]) >= MovThreshold}

\* the blocks the parser cut the sheet into: <<header row, end>>
Cortes == {salida.cortes[j] : j \in 1 .. Len(salida.cortes)}

\* C26: every row of a sheet whose header score reaches the threshold is the
\* header row of a block, every block runs from its header row to the next
\* header row or to the end of the sheet, and no block holds a header row
\* among its data rows; for the Telcel reader and for the Movistar reader.
C26_EveryHeaderOpensBlock ==
    (\/ salida.parser = "movistar" /\ entrada \in MovSheets
     \/ salida.parser = "telcel" /\ entrada \in TelSheets)
      => /\ {c[1] : c \in Cortes} = HeaderRows
         /\ \A c \in Cortes :
                /\ c[2] = Len(entrada) + 1 \/ c[2] \in HeaderRows
                /\ \A i \in c[1] + 1 .. c[2] - 1 : i \notin HeaderRows

\* the same for the Movistar reader alone
MovHeadersOpenBlocks ==
    (salida.parser = "movistar" /\ entrada \in MovSheets)
      => /\ {c[1] : c \in Cortes} = HeaderRows
         /\ \A c \in Cortes :
                /\ c[2] = Len(entrada) + 1 \/ c[2] \in HeaderRows
                /\ \A i \in c[1] + 1 .. c[2] - 1 : i \notin HeaderRows

\* the cleaned NÚMERO ORIGEN met most often in the rows of all blocks of the
\* file; more than one when several are met equally often
FileSubscribers ==
    LET vals     == origenes(extend_all(salida.frames))
        count(v) == Cardinality({i \in 1 .. Len(vals) : vals[i] = v})
    IN  {Some(vals[i]) : i \in {i \in 1 .. Len(vals) :
            \A j \in 1 .. Len(vals) : count(vals[j]) <= count(vals[i])}}

\* the dict comes from a row whose TIPO DE COMUNICACIÓN is VOZ
EsVoz(d) == d.tipo # NULL /\ strip_upper(d.tipo[1]) = "VOZ"

\* the id of a VOZ row for subscriber s: VozEntrante when the destination is
\* the subscriber and the origin is not, VozSaliente when the origin is the
\* subscriber and the destination is not, Ninguno otherwise
VozId(d, s) ==
    IF s # NULL /\ d.numero_b = s /\ d.numero_a # s THEN 4
    ELSE IF s # NULL /\ d.numero_a = s /\ d.numero_b # s THEN 5
    ELSE Ninguno

\* C28: every VOZ row the Altán parser emits has the id of the direction
\* taken with the subscriber of the file, the most frequent cleaned NÚMERO
\* ORIGEN of the file (any of them when several are equally frequent).
C28_AltanDirection ==
    (salida.parser = "altan" /\ entrada \in AltSheets)
      => \A i \in 1 .. Len(salida.rows) :
            EsVoz(salida.rows[i])
              => \E s \in FileSubscribers :
                    salida.rows[i].id_tipo_registro = VozId(salida.rows[i], s)

\* the same with the subscriber of the block of the row
AltDirectionPerBlock ==
    (salida.parser = "altan" /\ entrada \in AltSheets)
      => \A i \in 1 .. Len(salida.rows) :
            EsVoz(salida.rows[i])
              => salida.rows[i].id_tipo_registro
                   = VozId(salida.rows[i], salida.rows[i].abonado)
====
